---- MODULE Spec2Model ----
(***************************************************************************)
(* A model of node-vstream: the instrumentation overlay of lib/vstream.js  *)
(* (object instrumentation, stage linkage, transform instrumentation and   *)
(* provenance values) and the composite PipelineStream of                  *)
(* lib/stream-pipeline.js.                                                 *)
(*                                                                         *)
(* JavaScript objects are modelled as one heap, obj, mapping each stage to *)
(* the vs_* properties the library attaches to it.  Every library function *)
(* is an operator from a heap (and its arguments) to a result record       *)
(* [ok, o]: ok is FALSE when the function throws (an assert-plus failure   *)
(* or a TypeError), and o is the heap as the function left it, including   *)
(* whatever it had already changed before it threw.                        *)
(***************************************************************************)
EXTENDS Integers, Sequences, FiniteSets, TLC

VARIABLES
    obj,        \* the heap: stage -> its vs_* properties
    pipes,      \* Node's own pipe connections, a set of <<source, destination>>
    eng,        \* Node's Transform machinery of each stage
    calls,      \* stage -> the _transform/_flush calls that have not completed
    lastout,    \* stage -> the last chunk handed to the stage's real push()
    ps,         \* the composite PipelineStream, its tail and its consumer
    lastwarn,   \* the last vsWarn call and the 'warn' event it emitted
    bumps,      \* stage -> counter name -> the vsCounterBump calls the program made
    lastwalk,   \* the last vsWalk call and the calls of its visitor, in order
    loop,       \* the vsHead or vsWalk call in progress and where its loop is
    ev          \* the last operation performed and whether it returned normally

xfVars == <<eng, calls, lastout, lastwarn, bumps, lastwalk, loop>>
vars ==
    <<obj, pipes, eng, calls, lastout, ps, lastwarn, bumps, lastwalk, loop, ev>>

(***************************************************************************)
(* Bounds of the model.                                                    *)
(***************************************************************************)
MaxLinks == 2

MaxFeed == 2

MaxOut == 2

MaxHwm == 2

MaxUnits == 4

MaxUnshift == 2

MaxWrites == 3

MaxErrors == 2

MaxBumps == 2

Stages == {"t1", "t2", "t3"}

\* The PipelineStream objects the program may construct.
Composites == {"P", "Q"}

Objects == Stages \cup Composites

(***************************************************************************)
(* Values.  A chunk travelling through a stream is either a raw payload or *)
(* a ProvenanceValue; both are records of one shape, told apart by isPV    *)
(* (chunk instanceof ProvenanceValue).  Payloads are sequences of          *)
(* integers that spell out where the payload comes from: <<i>> is the i-th *)
(* chunk written to the head of the pipeline, and Append(p, j) is the j-th *)
(* chunk the real _transform pushes while it handles payload p.  <<>> is   *)
(* JavaScript's undefined and <<-1>> its null.                             *)
(***************************************************************************)
Undefined == <<>>

Null == <<-1>>

NoName == "<undefined>"

Raw(p) == [isPV |-> FALSE, pv_value |-> p, pv_provenance |-> <<>>]

\* null, as a chunk and as the value of vs_context
NullPV == Raw(Null)

\* new ProvenanceValue(value)
ProvenanceValue(value) ==
    [isPV |-> TRUE, pv_value |-> value, pv_provenance |-> <<>>]

EmptyCounters == [k \in {} |-> 0]

\* An object no library function has touched yet.
RawObject ==
    [vs_name |-> NoName, vs_counters |-> EmptyCounters, vs_context |-> NullPV,
     ctx_id |-> 0,
     links |-> FALSE, vs_upstreams |-> <<>>, vs_downstreams |-> <<>>,
     nlinkpipe |-> 0,
     xform |-> FALSE, vs_marshalmode |-> "undefined", nxformpipe |-> 0,
     ps_streams |-> <<>>, npspipe |-> 0]

\* source.constructor.name, the name auto-instrumentation gives an object.
ConstructorName(s) == "Transform"

Ok(o) == [ok |-> TRUE, o |-> o]

Throw(o) == [ok |-> FALSE, o |-> o]

Count(x, seq) == Cardinality({i \in 1..Len(seq) : seq[i] = x})

\* Array.prototype.splice(i, 1)
Splice(seq, i) == [k \in 1..(Len(seq) - 1) |-> IF k < i THEN seq[k] ELSE seq[k + 1]]

(***************************************************************************)
(* Object instrumentation.                                                 *)
(***************************************************************************)
isInstrumented(o, x) == o[x].vs_name # NoName

instrumentObject_reinitialize(o, x, name) ==
    Ok([o EXCEPT ![x].vs_name = name,
                 ![x].vs_counters = EmptyCounters,
                 ![x].vs_context = NullPV,
                 ![x].ctx_id = 0])

instrumentObject(o, x, name) ==
    IF isInstrumented(o, x)
    THEN Throw(o)
    ELSE Ok([o EXCEPT ![x].vs_name = name,
                      ![x].vs_counters = EmptyCounters,
                      ![x].vs_context = NullPV,
                      ![x].ctx_id = 0])

(***************************************************************************)
(* Stage linkage.                                                          *)
(***************************************************************************)
instrumentStream(o, x) ==
    IF ~isInstrumented(o, x)
    THEN Throw(o)
    ELSE Ok([o EXCEPT ![x].links = TRUE,
                      ![x].vs_upstreams = <<>>,
                      ![x].vs_downstreams = <<>>,
                      ![x].nlinkpipe = @ + 1])

\* instrumentObject(x, {name: x.constructor.name}); instrumentStream(x), as
\* the pipe handler and vsRecordPipe do for an uninstrumented peer.
AutoInstrument(o, x) ==
    IF o[x].links
    THEN Throw(o)
    ELSE instrumentStream(instrumentObject(o, x, ConstructorName(x)).o, x)

vsRecordPipe(o, this, downstream) ==
    LET r == IF isInstrumented(o, downstream) THEN Ok(o)
             ELSE AutoInstrument(o, downstream)
    IN  IF ~r.ok THEN r
        ELSE LET o1 == [r.o EXCEPT ![this].vs_downstreams = Append(@, downstream)]
             IN  IF ~o1[downstream].links
                 THEN Throw(o1)
                 ELSE Ok([o1 EXCEPT ![downstream].vs_upstreams = Append(@, this)])

\* The first index at which seq holds x, or Len(seq) + 1: the for loops of
\* vsRecordUnpipe.
IndexOf(seq, x) ==
    IF \E i \in 1..Len(seq) : seq[i] = x
    THEN CHOOSE i \in 1..Len(seq) :
            seq[i] = x /\ \A k \in 1..(i - 1) : seq[k] # x
    ELSE Len(seq) + 1

vsRecordUnpipe_oneSided(o, this, downstream) ==
    LET i == IndexOf(o[this].vs_downstreams, downstream)
        j == IndexOf(o[downstream].vs_upstreams, this)
    IN  IF ~(i <= Len(o[this].vs_downstreams)) THEN Throw(o)
        ELSE IF ~(j <= Len(o[downstream].vs_upstreams)) THEN Throw(o)
        ELSE Ok([o EXCEPT ![this].vs_downstreams = Splice(@, i)])

vsRecordUnpipe_everyOccurrence(o, this, downstream) ==
    LET i == IndexOf(o[this].vs_downstreams, downstream)
        j == IndexOf(o[downstream].vs_upstreams, this)
    IN  IF ~(i <= Len(o[this].vs_downstreams)) THEN Throw(o)
        ELSE IF ~o[downstream].links THEN Throw(o)
        ELSE IF ~(j <= Len(o[downstream].vs_upstreams)) THEN Throw(o)
        ELSE Ok([o EXCEPT
                  ![this].vs_downstreams =
                      SelectSeq(@, LAMBDA x : x # downstream),
                  ![downstream].vs_upstreams =
                      IF this = downstream THEN @
                      ELSE SelectSeq(@, LAMBDA x : x # this)])

vsRecordUnpipe(o, this, downstream) ==
    LET i == IndexOf(o[this].vs_downstreams, downstream)
        j == IndexOf(o[downstream].vs_upstreams, this)
    IN  IF ~(i <= Len(o[this].vs_downstreams)) THEN Throw(o)
        ELSE IF ~o[downstream].links THEN Throw(o)
        ELSE IF ~(j <= Len(o[downstream].vs_upstreams)) THEN Throw(o)
        ELSE LET o1 == [o EXCEPT ![this].vs_downstreams = Splice(@, i)]
             IN  Ok([o1 EXCEPT ![downstream].vs_upstreams =
                                    Splice(@, IndexOf(@, this))])

RECURSIVE vsHeadLoop_lastUpstream(_, _, _)
vsHeadLoop_lastUpstream(o, stream, fuel) ==
    IF o[stream].links /\ Len(o[stream].vs_upstreams) > 0
    THEN IF fuel = 0
         THEN [returns |-> FALSE, stream |-> stream]
         ELSE vsHeadLoop_lastUpstream(
                  o, o[stream].vs_upstreams[Len(o[stream].vs_upstreams)],
                  fuel - 1)
    ELSE [returns |-> TRUE, stream |-> stream]

\* vsHead's loop: while (stream.hasOwnProperty('vs_upstreams') &&
\* stream.vs_upstreams.length > 0) stream = stream.vs_upstreams[0].  A loop
\* that has taken more steps than there are stages is on a cycle and never
\* ends: returns is then FALSE.
RECURSIVE vsHeadLoop(_, _, _)
vsHeadLoop(o, stream, fuel) ==
    IF o[stream].links /\ Len(o[stream].vs_upstreams) > 0
    THEN IF fuel = 0
         THEN [returns |-> FALSE, stream |-> stream]
         ELSE vsHeadLoop(o, o[stream].vs_upstreams[1], fuel - 1)
    ELSE [returns |-> TRUE, stream |-> stream]

\* vsHead.call(this)
vsHead(o, this) ==
    IF ~isInstrumented(o, this) \/ ~o[this].links
    THEN [ok |-> FALSE, returns |-> TRUE, stream |-> this]
    ELSE LET r == vsHeadLoop(o, this, Cardinality(Stages))
         IN  [ok |-> TRUE, returns |-> r.returns, stream |-> r.stream]

\* stream.ps_streams.forEach(function (s) { func(s, depth + 1); })
Inside_sameDepth(o, stream, depth) ==
    [i \in 1..Len(o[stream].ps_streams) |->
        [stage |-> o[stream].ps_streams[i], depth |-> depth]]

Inside(o, stream, depth) ==
    [i \in 1..Len(o[stream].ps_streams) |->
        [stage |-> o[stream].ps_streams[i], depth |-> depth + 1]]

\* vsWalk's loop: func(stream, depth); func(s, depth + 1) for the streams
\* of a PipelineStream; then stream = stream.vs_downstreams[0], or null.
\* The calls of func are the visits.  A loop that has taken more steps than
\* there are objects is on a cycle and never ends: returns is then FALSE.
RECURSIVE vsWalkLoop(_, _, _, _)
vsWalkLoop(o, stream, depth, fuel) ==
    LET here == <<[stage |-> stream, depth |-> depth]>>
                    \o Inside(o, stream, depth)
    IN  IF o[stream].links /\ Len(o[stream].vs_downstreams) > 0
        THEN IF fuel = 0
             THEN [returns |-> FALSE, visits |-> here]
             ELSE LET r == vsWalkLoop(o, o[stream].vs_downstreams[1],
                                      depth, fuel - 1)
                  IN  [returns |-> r.returns, visits |-> here \o r.visits]
        ELSE [returns |-> TRUE, visits |-> here]

vsWalk_fromHead(o, this, depth) ==
    IF ~o[this].links
    THEN [ok |-> FALSE, returns |-> TRUE, visits |-> <<>>]
    ELSE LET h == vsHead(o, this)
             r == vsWalkLoop(o, IF h.ok /\ h.returns THEN h.stream ELSE this,
                             depth, Cardinality(Objects))
         IN  [ok |-> TRUE, returns |-> r.returns, visits |-> r.visits]

\* vsWalk.call(this, func, depth), with depth 0 when it is not given.
vsWalk(o, this, depth) ==
    IF ~o[this].links
    THEN [ok |-> FALSE, returns |-> TRUE, visits |-> <<>>]
    ELSE LET r == vsWalkLoop(o, this, depth, Cardinality(Objects))
         IN  [ok |-> TRUE, returns |-> r.returns, visits |-> r.visits]

onUnpipe_unrecord(o, stream, source) ==
    vsRecordUnpipe(o, source, stream).o

\* What instrumentStream does about 'unpipe' on stream: it installs no
\* listener, so that the event changes nothing.
onUnpipe(o, stream, source) == o

\* The 'pipe' listener instrumentStream installs on stream.
onPipeLink(o, stream, source) ==
    LET r == IF isInstrumented(o, source) THEN Ok(o)
             ELSE AutoInstrument(o, source)
    IN  IF ~r.ok THEN r
        ELSE IF ~r.o[source].links THEN Throw(r.o)
        ELSE vsRecordPipe(r.o, source, stream)

onPipeTransform_always(o, transform, upstream) ==
    IF o[upstream].xform
    THEN Ok([o EXCEPT ![upstream].vs_marshalmode = "marshal"])
    ELSE Ok(o)

Negotiator_composite(o, upstream) == upstream

\* upstream.hasOwnProperty('ps_streams') ?
\*     upstream.ps_streams[upstream.ps_streams.length - 1] : upstream

Negotiator(o, upstream) ==
    IF o[upstream].ps_streams # <<>>
    THEN o[upstream].ps_streams[Len(o[upstream].ps_streams)]
    ELSE upstream

\* The 'pipe' listener instrumentTransform installs on transform.
onPipeTransform(o, transform, upstream) ==
    LET u == Negotiator(o, upstream)
    IN  IF o[u].vs_marshalmode = "unspecified"
        THEN Ok([o EXCEPT ![u].vs_marshalmode = "marshal"])
        ELSE Ok(o)

\* The 'pipe' listener the PipelineStream constructor installs on the
\* composite when its head has a vs_marshalmode.
onPipeComposite(o, self, upstream) ==
    LET u == Negotiator(o, upstream)
    IN  IF o[u].vs_marshalmode = "unspecified"
        THEN Ok([o EXCEPT ![u].vs_marshalmode = "marshal"])
        ELSE Ok(o)

\* The n 'pipe' listeners instrumentStream installed on stream, run in turn;
\* a listener that throws ends the emit.
RECURSIVE EmitPipeLink(_, _, _, _)
EmitPipeLink(n, o, stream, source) ==
    IF n = 0 THEN Ok(o)
    ELSE LET r == onPipeLink(o, stream, source)
         IN  IF ~r.ok THEN r ELSE EmitPipeLink(n - 1, r.o, stream, source)

\* destination.emit('pipe', source): the listeners run in the order they were
\* registered (instrumentStream before instrumentTransform, as wrapTransform
\* does, and before the listener of the PipelineStream constructor).
EmitPipe(o, destination, source) ==
    LET r == EmitPipeLink(o[destination].nlinkpipe, o, destination, source)
    IN  IF ~r.ok THEN r
        ELSE IF r.o[destination].nxformpipe > 0
        THEN onPipeTransform(r.o, destination, source)
        ELSE IF r.o[destination].npspipe > 0
        THEN onPipeComposite(r.o, destination, source)
        ELSE r

\* wrapStream(stream, name): instrumentObject(), instrumentStream().
wrapStream(o, stream, name) ==
    LET r == instrumentObject(o, stream, name)
    IN  IF r.ok THEN instrumentStream(r.o, stream) ELSE r

\* The result of code that also calls pipe(): pp is Node's set of pipe
\* connections.
Piped(ok, o, pp) == [ok |-> ok, o |-> o, pipes |-> pp]

\* for (i = 0; i < ps_streams.length - 1; i++)
\*     ps_streams[i].pipe(ps_streams[i + 1]);
\* from index i on; a 'pipe' listener that throws ends the loop.  (The
\* result r of each pipe is bound once and used for what follows.)
RECURSIVE PipeEach(_, _, _, _)
PipeEach(o, pp, streams, i) ==
    IF i >= Len(streams) THEN Piped(TRUE, o, pp)
    ELSE LET pp1 == pp \cup {<<streams[i], streams[i + 1]>>}
             Rest(r) == IF ~r.ok THEN Piped(FALSE, r.o, pp1)
                        ELSE PipeEach(r.o, pp1, streams, i + 1)
         IN  CHOOSE y \in {Rest(r) :
                              r \in {EmitPipe(o, streams[i + 1], streams[i])}} :
                 TRUE

\* The PipelineStream constructor, connecting its streams when pipe holds:
\* ps_streams is assigned, the streams are piped (r1), the new object is
\* instrumented (r2, r3), and a 'pipe' listener is added when the first
\* stream has a vs_marshalmode property.
Construct(o, pp, self, streams, pipe) ==
    LET o1 == [o EXCEPT ![self].ps_streams = streams]
        Listen(r1, r3) ==
            IF ~r3.ok THEN Piped(FALSE, r3.o, r1.pipes)
            ELSE IF r3.o[streams[1]].vs_marshalmode # "undefined"
            THEN Piped(TRUE, [r3.o EXCEPT ![self].npspipe = @ + 1], r1.pipes)
            ELSE Piped(TRUE, r3.o, r1.pipes)
        Links(r1, r2) ==
            CHOOSE y \in {Listen(r1, r3) :
                             r3 \in {IF r2.ok THEN instrumentStream(r2.o, self)
                                     ELSE r2}} : TRUE
        Wrap(r1) ==
            CHOOSE y \in {Links(r1, r2) :
                             r2 \in {IF r1.ok
                                     THEN instrumentObject(r1.o, self,
                                                           "PipelineStream")
                                     ELSE Throw(r1.o)}} : TRUE
    IN  CHOOSE y \in {Wrap(r1) :
                         r1 \in {IF pipe THEN PipeEach(o1, pp, streams, 1)
                                 ELSE Piped(TRUE, o1, pp)}} : TRUE

PipelineStream_pipeAlways(o, pp, self, streams, noPipe) ==
    Construct(o, pp, self, streams, TRUE)

\* new PipelineStream({ streams: streams, noPipe: noPipe }), the new object
\* being self: what the constructor does to the linkage and to the modes.
PipelineStream(o, pp, self, streams, noPipe) ==
    Construct(o, pp, self, streams, ~noPipe)

(***************************************************************************)
(* Counters and provenance values.                                         *)
(***************************************************************************)
\* vs_counters is a plain object, {}: the names it holds are its own
\* properties, and a name it does not hold is looked up in Object.prototype.
\* this.vs_counters.hasOwnProperty(name) calls the value found under
\* "hasOwnProperty", which is a number, not a function, once a counter of
\* that name exists: the call then throws a TypeError.
vsCounterBumpFails(c) == "hasOwnProperty" \in DOMAIN c

\* this.vs_counters[name] = 0 and this.vs_counters[name]++ with the name
\* "__proto__" go to the prototype accessor, which ignores a number: no own
\* property is made.
IgnoredName == "__proto__"

\* vsCounterBump.call(x, name), on the counters c of x; the counters are as
\* they were when the call throws.
vsCounterBump(c, name) ==
    IF vsCounterBumpFails(c) \/ name = IgnoredName THEN c
    ELSE [k \in DOMAIN c \cup {name} |->
            IF k = name THEN (IF name \in DOMAIN c THEN c[name] ELSE 0) + 1
            ELSE c[k]]

\* source.vs_counters[name] || 0
CounterOrZero(c, name) == IF name \in DOMAIN c THEN c[name] ELSE 0

\* ProvenanceValue.prototype.next: pv.next(newvalue, source), with o[source]
\* the source as it is at the time of the call.
next_byOutputs(pv, newvalue, o, source) ==
    [isPV |-> TRUE,
     pv_value |-> newvalue,
     pv_provenance |-> Append(pv.pv_provenance,
        [pvp_source |-> o[source].vs_name,
         pvp_input |-> CounterOrZero(o[source].vs_counters, "noutputs")])]

next(pv, newvalue, o, source) ==
    [isPV |-> TRUE,
     pv_value |-> newvalue,
     pv_provenance |-> Append(pv.pv_provenance,
        [pvp_source |-> o[source].vs_name,
         pvp_input |-> CounterOrZero(o[source].vs_counters, "ninputs")])]

\* ProvenanceValue.prototype.withSource
withSource(pv, o, source) == next(pv, pv.pv_value, o, source)

\* The result of vsWarn: when ok, 'warn' has been emitted with context.
Warned(o, context) == [ok |-> TRUE, o |-> o, context |-> context]

NotWarned(o) == [ok |-> FALSE, o |-> o, context |-> NullPV]

vsWarn_countWarnings(o, this, err, kind) ==
    IF ~isInstrumented(o, this) \/ err # "Error" \/ kind = NoName
    THEN NotWarned(o)
    ELSE Warned([o EXCEPT ![this].vs_counters = vsCounterBump(@, "nwarnings")],
                IF o[this].vs_context = NullPV THEN NullPV
                ELSE withSource(o[this].vs_context, o, this))

vsWarn_bareContext(o, this, err, kind) ==
    IF ~isInstrumented(o, this) \/ err # "Error" \/ kind = NoName
    THEN NotWarned(o)
    ELSE Warned([o EXCEPT ![this].vs_counters = vsCounterBump(@, kind)],
                o[this].vs_context)

\* vsWarn(err, kind) on the object `this`; err is "Error" for an instance of
\* Error, kind a string, or NoName for a value
\* that is not a string.
vsWarn(o, this, err, kind) ==
    IF ~isInstrumented(o, this) THEN NotWarned(o)
    ELSE IF err # "Error" THEN NotWarned(o)
    ELSE IF kind = NoName THEN NotWarned(o)
    ELSE LET context == IF o[this].vs_context = NullPV
                        THEN NullPV
                        ELSE withSource(o[this].vs_context, o, this)
         IN  Warned([o EXCEPT ![this].vs_counters = vsCounterBump(@, kind)],
                    context)

(***************************************************************************)
(* Transform instrumentation.                                              *)
(***************************************************************************)
instrumentTransform_requiresLinks(o, transform) ==
    IF ~isInstrumented(o, transform) \/ ~o[transform].links
    THEN Throw(o)
    ELSE Ok([o EXCEPT ![transform].xform = TRUE,
                      ![transform].vs_marshalmode = "unspecified",
                      ![transform].nxformpipe = @ + 1])

instrumentTransform(o, transform) ==
    IF ~isInstrumented(o, transform)
    THEN Throw(o)
    ELSE Ok([o EXCEPT ![transform].xform = TRUE,
                      ![transform].vs_marshalmode = "unspecified",
                      ![transform].nxformpipe = @ + 1])

\* The result of a function that hands out[i] to vs_realpush, in order.
Pushed(o, out) == [ok |-> TRUE, o |-> o, out |-> out]

Failed(o) == [ok |-> FALSE, o |-> o, out |-> <<>>]

vsPush_anyTime(o, this, chunk) ==
    IF ~isInstrumented(o, this) THEN Failed(o)
    ELSE IF chunk = NullPV THEN Pushed(o, <<NullPV>>)
    ELSE LET o1 == [o EXCEPT ![this].vs_counters = vsCounterBump(@, "noutputs")]
             o2 == IF o1[this].vs_marshalmode = "unspecified"
                   THEN [o1 EXCEPT ![this].vs_marshalmode = "nomarshal"]
                   ELSE o1
         IN  IF o2[this].vs_marshalmode = "nomarshal"
             THEN Pushed(o2, <<chunk>>)
             ELSE IF o2[this].vs_context = NullPV THEN Failed(o2)
             ELSE Pushed(o2, <<next(o2[this].vs_context, chunk.pv_value,
                                    o2, this)>>)

vsPush_countMarshaled(o, this, chunk) ==
    IF ~isInstrumented(o, this) THEN Failed(o)
    ELSE IF ~(chunk = NullPV \/ o[this].vs_context # NullPV) THEN Failed(o)
    ELSE IF chunk = NullPV THEN Pushed(o, <<NullPV>>)
    ELSE LET o2 == IF o[this].vs_marshalmode = "unspecified"
                   THEN [o EXCEPT ![this].vs_marshalmode = "nomarshal"]
                   ELSE o
         IN  IF o2[this].vs_marshalmode = "nomarshal"
             THEN Pushed(o2, <<chunk>>)
             ELSE LET o3 == [o2 EXCEPT ![this].vs_counters =
                                          vsCounterBump(@, "noutputs")]
                  IN  Pushed(o3, <<next(o3[this].vs_context, chunk.pv_value,
                                         o3, this)>>)

vsPush_alwaysMarshal(o, this, chunk) ==
    IF ~isInstrumented(o, this) THEN Failed(o)
    ELSE IF ~(chunk = NullPV \/ o[this].vs_context # NullPV) THEN Failed(o)
    ELSE IF chunk = NullPV THEN Pushed(o, <<NullPV>>)
    ELSE LET o1 == [o EXCEPT ![this].vs_counters = vsCounterBump(@, "noutputs")]
             o2 == IF o1[this].vs_marshalmode = "unspecified"
                   THEN [o1 EXCEPT ![this].vs_marshalmode = "nomarshal"]
                   ELSE o1
         IN  Pushed(o2, <<next(o2[this].vs_context, chunk.pv_value, o2, this)>>)

vsPush(o, this, chunk) ==
    IF ~isInstrumented(o, this) THEN Failed(o)
    ELSE IF ~(chunk = NullPV \/ o[this].vs_context # NullPV) THEN Failed(o)
    ELSE IF chunk = NullPV THEN Pushed(o, <<NullPV>>)
    ELSE LET o1 == [o EXCEPT ![this].vs_counters = vsCounterBump(@, "noutputs")]
             o2 == IF o1[this].vs_marshalmode = "unspecified"
                   THEN [o1 EXCEPT ![this].vs_marshalmode = "nomarshal"]
                   ELSE o1
         IN  IF o2[this].vs_marshalmode = "nomarshal"
             THEN Pushed(o2, <<chunk>>)
             ELSE Pushed(o2, <<next(o2[this].vs_context, chunk.pv_value,
                                    o2, this)>>)

\* The result of vsTransform and vsFlush: when ok, the real function has
\* been called with payload `given` under context `aug`.
Started(o, aug, given) == [ok |-> TRUE, o |-> o, aug |-> aug, given |-> given]

NotStarted(o) == [ok |-> FALSE, o |-> o, aug |-> NullPV, given |-> NullPV]

\* vsTransform up to and including its call of vs_realtransform.  id stands
\* for the identity of the object `augmented`.
vsTransform_reentrant(o, this, chunk, id) ==
    IF ~isInstrumented(o, this) THEN NotStarted(o)
    ELSE LET augmented == IF chunk.isPV THEN chunk
                          ELSE ProvenanceValue(chunk.pv_value)
             o1 == [o EXCEPT ![this].vs_counters = vsCounterBump(@, "ninputs")]
             o2 == [o1 EXCEPT ![this].vs_context = augmented,
                              ![this].ctx_id = id]
         IN  Started(o2, augmented, Raw(augmented.pv_value))

vsTransform_freshWrap(o, this, chunk, id) ==
    IF ~isInstrumented(o, this) THEN NotStarted(o)
    ELSE IF ~(o[this].vs_context = NullPV) THEN NotStarted(o)
    ELSE LET augmented == ProvenanceValue(chunk.pv_value)
             o1 == [o EXCEPT ![this].vs_counters = vsCounterBump(@, "ninputs")]
             o2 == [o1 EXCEPT ![this].vs_context = augmented,
                              ![this].ctx_id = id]
         IN  Started(o2, augmented, Raw(augmented.pv_value))

vsTransform(o, this, chunk, id) ==
    IF ~isInstrumented(o, this) THEN NotStarted(o)
    ELSE IF ~(o[this].vs_context = NullPV) THEN NotStarted(o)
    ELSE LET augmented == IF chunk.isPV THEN chunk
                          ELSE ProvenanceValue(chunk.pv_value)
             o1 == [o EXCEPT ![this].vs_counters = vsCounterBump(@, "ninputs")]
             o2 == [o1 EXCEPT ![this].vs_context = augmented,
                              ![this].ctx_id = id]
         IN  Started(o2, augmented, Raw(augmented.pv_value))

vsTransformCallback_anyArguments(o, self, id, nargs, err, newchunk) ==
    IF ~(o[self].vs_context # NullPV /\ o[self].ctx_id = id) THEN Failed(o)
    ELSE LET p == IF ~err /\ nargs > 1 THEN vsPush(o, self, newchunk)
                  ELSE Pushed(o, <<>>)
         IN  IF ~p.ok THEN p
             ELSE Pushed([p.o EXCEPT ![self].vs_context = NullPV,
                                     ![self].ctx_id = 0], p.out)

vsTransformCallback_clearLate(o, self, id, nargs, err, newchunk) ==
    IF ~(nargs < 3) THEN Failed(o)
    ELSE IF ~(o[self].vs_context # NullPV /\ o[self].ctx_id = id) THEN Failed(o)
    ELSE IF ~err /\ nargs > 1 THEN vsPush(o, self, newchunk)
    ELSE Pushed(o, <<>>)

\* The callback vsTransform passes to vs_realtransform, called with nargs
\* arguments (err, newchunk) by the call whose `augmented` has identity id.
\* When ok, the caller's callback is then invoked with the first argument.
vsTransformCallback(o, self, id, nargs, err, newchunk) ==
    IF ~(nargs < 3) THEN Failed(o)
    ELSE IF ~(o[self].vs_context # NullPV /\ o[self].ctx_id = id) THEN Failed(o)
    ELSE LET p == IF ~err /\ nargs > 1 THEN vsPush(o, self, newchunk)
                  ELSE Pushed(o, <<>>)
         IN  IF ~p.ok THEN p
             ELSE Pushed([p.o EXCEPT ![self].vs_context = NullPV,
                                     ![self].ctx_id = 0], p.out)

CallbackArguments_passThrough(nargs, err, newchunk) ==
    [n |-> nargs, err |-> err, data |-> newchunk]

\* Array.prototype.slice.call(arguments, 0, 1): the arguments vsTransform's
\* callback passes on to the callback Node gave to _transform.
CallbackArguments(nargs, err, newchunk) ==
    [n |-> IF nargs = 0 THEN 0 ELSE 1, err |-> err, data |-> NullPV]

\* Node's callback of _transform, called with args: it pushes the data it is
\* given, if any, with stream.push, which is vsPush.
afterTransform(o, stream, args) ==
    IF args.n > 1 /\ args.data # NullPV /\ args.data # Raw(Undefined)
    THEN vsPush(o, stream, args.data)
    ELSE Pushed(o, <<>>)

\* vsFlush up to and including its call of vs_realflush.
vsFlush(o, this, id) ==
    IF ~isInstrumented(o, this) THEN NotStarted(o)
    ELSE IF ~(o[this].vs_context = NullPV) THEN NotStarted(o)
    ELSE LET augmented == ProvenanceValue(Undefined)
         IN  Started([o EXCEPT ![this].vs_context = augmented,
                               ![this].ctx_id = id],
                     augmented, Raw(Undefined))

\* The callback vsFlush passes to vs_realflush.
vsFlushCallback_keepContext(o, self, id) ==
    IF ~(o[self].vs_context # NullPV /\ o[self].ctx_id = id) THEN Throw(o)
    ELSE Ok(o)

vsFlushCallback(o, self, id) ==
    IF ~(o[self].vs_context # NullPV /\ o[self].ctx_id = id) THEN Throw(o)
    ELSE Ok([o EXCEPT ![self].vs_context = NullPV, ![self].ctx_id = 0])

(***************************************************************************)
(* The operations of a program that uses stage linkage.                    *)
(***************************************************************************)
Event(op, s, d, ok) == [op |-> op, stage |-> s, peer |-> d, ok |-> ok]

RECURSIVE SumOver(_, _)
SumOver(f, S) ==
    IF S = {} THEN 0
    ELSE LET x == CHOOSE y \in S : TRUE IN f[x] + SumOver(f, S \ {x})

\* The model records at most MaxLinks connections at a time.
Fits(o) ==
    SumOver([s \in Stages |-> Len(o[s].vs_downstreams)], Stages) <= MaxLinks

\* The pipeline the program builds with pipe(): t1 | t2 | t3.
Pipeline == {<<"t1", "t2">>, <<"t2", "t3">>}

CallInstrumentObject(s) ==
    LET r == instrumentObject(obj, s, s)
    IN  /\ obj' = r.o
        /\ ev' = Event("instrumentObject", s, s, r.ok)
        /\ UNCHANGED <<pipes, xfVars, ps>>

\* The first stage instrumentation of an object.
CallInstrumentStream(s) ==
    /\ ~obj[s].links
    /\ LET r == instrumentStream(obj, s)
       IN  /\ obj' = r.o
           /\ ev' = Event("instrumentStream", s, s, r.ok)
    /\ UNCHANGED <<pipes, xfVars, ps>>

\* upstream.vsRecordPipe(downstream), between stages that are stage-
\* instrumented or were never instrumented.
CallRecordPipe(u, d) ==
    /\ obj[u].links
    /\ obj[d].links \/ ~isInstrumented(obj, d)
    /\ LET r == vsRecordPipe(obj, u, d)
       IN  /\ Fits(r.o)
           /\ obj' = r.o
           /\ ev' = Event("vsRecordPipe", u, d, r.ok)
    /\ UNCHANGED <<pipes, xfVars, ps>>

\* upstream.vsRecordUnipe(downstream)
CallRecordUnpipe(u, d) ==
    /\ obj[u].links
    /\ LET r == vsRecordUnpipe(obj, u, d)
       IN  /\ obj' = r.o
           /\ ev' = Event("vsRecordUnpipe", u, d, r.ok)
    /\ UNCHANGED <<pipes, xfVars, ps>>

\* source.pipe(destination): Node connects the two and emits 'pipe' on the
\* destination.
Pipe(source, destination) ==
    /\ <<source, destination>> \in Pipeline \ pipes
    /\ LET r == EmitPipe(obj, destination, source)
       IN  /\ Fits(r.o)
           /\ obj' = r.o
           /\ ev' = Event("pipe", source, destination, r.ok)
    /\ pipes' = pipes \cup {<<source, destination>>}
    /\ UNCHANGED <<xfVars, ps>>

\* source.unpipe(destination), also what Node does by itself when the
\* destination finishes: the library listens to no 'unpipe' event.
Unpipe(source, destination) ==
    /\ <<source, destination>> \in pipes
    /\ pipes' = pipes \ {<<source, destination>>}
    /\ obj' = onUnpipe(obj, destination, source)
    /\ ev' = Event("unpipe", source, destination, TRUE)
    /\ UNCHANGED <<xfVars, ps>>

\* A Transform stream as Node constructs it.
\* No PipelineStream has been constructed.
NoComposite ==
    [built |-> FALSE, hwm |-> 0, ps_needreadable |-> FALSE, rbuf |-> <<>>,
     reading |-> FALSE, tbuf |-> <<>>, tneed |-> FALSE, made |-> 0,
     got |-> <<>>, foreign |-> 0, nfwd |-> 0,
     tended |-> FALSE, tendemitted |-> FALSE, eos |-> FALSE, pushed |-> <<>>,
     wq |-> <<>>, nw |-> 0, pwriting |-> FALSE, pended |-> FALSE,
     hin |-> <<>>, hpend |-> <<>>, hdone |-> 0, ndone |-> 0,
     serrors |-> <<>>, perrors |-> <<>>,
     by |-> "none", entry |-> 0, pulled |-> 0, stop |-> "none"]

\* No vsWarn call has been made.
NoWarn ==
    [n |-> 0, stage |-> "t1", kind |-> "", context |-> NullPV,
     active |-> NullPV, inputs |-> 0, observed |-> FALSE]

\* The counter names the program bumps by hand: a name of its own, and two
\* names that Object.prototype also has.
CounterNames == {"nretries", "hasOwnProperty", "__proto__"}

\* No vsWalk call has been made.
\* No vsHead or vsWalk call is in progress.
NoLoop ==
    [op |-> "none", start |-> "t1", at |-> "t1", seen |-> {}, again |-> FALSE,
     odd |-> FALSE]

NoWalk == [n |-> 0, start |-> "t1", visits |-> <<>>]

\* No vsCounterBump call has been made by the program.
NoBumps == [s \in Stages |-> [k \in CounterNames |-> 0]]

NewEngine ==
    [wbuf |-> <<>>, nwritten |-> 0, transforming |-> FALSE, ended |-> FALSE,
     flushed |-> FALSE, eos |-> FALSE, ncalls |-> 0, nout |-> 0]

NoOutput == [val |-> NullPV, raw |-> Null, arr |-> 0, kind |-> "none"]

Init ==
    /\ obj = [s \in Objects |-> RawObject]
    /\ pipes = {}
    /\ eng = [s \in Stages |-> NewEngine]
    /\ calls = [s \in Stages |-> {}]
    /\ lastout = [s \in Stages |-> NoOutput]
    /\ ps = NoComposite
    /\ lastwarn = NoWarn
    /\ bumps = NoBumps
    /\ lastwalk = NoWalk
    /\ loop = NoLoop
    /\ ev = Event("new", "t1", "t1", TRUE)

(***************************************************************************)
(* A program that runs instrumented Transform streams: the test program's  *)
(* pipeline t1 | t2 of TestTransform streams.  Node calls _transform with  *)
(* the chunks written to a stage one at a time, in the order written, and  *)
(* _flush once the stage has ended and every chunk has been handled; the   *)
(* real _transform and _flush push chunks and complete at any later time.  *)
(***************************************************************************)
XStages == {"t1", "t2"}

Call(id, kind, given, arr) ==
    [id |-> id, kind |-> kind, given |-> given, arr |-> arr, npush |-> 0]

\* The chunks Node's push() takes for the end of the stream: null and
\* undefined (readableAddChunk of Node 0.10).
IsEof(chunk) == chunk = NullPV \/ chunk = Raw(Undefined)

\* vs_realpush(chunk) on stage s: Node hands a chunk to the stage's pipe
\* destinations (or to its 'data' listener), and ends them on null.
RECURSIVE RealPush(_, _, _)
RealPush(e, s, out) ==
    IF out = <<>> THEN e
    ELSE LET chunk == Head(out)
             dests == {d \in Stages : <<s, d>> \in pipes}
             e1 == IF IsEof(chunk)
                   THEN [d \in Stages |->
                            IF d = s THEN [e[d] EXCEPT !.eos = TRUE]
                            ELSE IF d \in dests THEN [e[d] EXCEPT !.ended = TRUE]
                            ELSE e[d]]
                   ELSE [d \in Stages |->
                            IF d \in dests
                            THEN [e[d] EXCEPT
                                    !.wbuf = Append(@, [chunk |-> chunk,
                                                        arr |-> e[d].nwritten + 1]),
                                    !.nwritten = @ + 1]
                            ELSE e[d]]
         IN  RealPush(e1, s, Tail(out))

\* What lastout becomes when `out` has been handed to vs_realpush by call c,
\* whose real function pushed payload raw.
Record(s, out, raw, c) ==
    IF out = <<>> \/ Head(out) = NullPV THEN lastout
    ELSE [lastout EXCEPT ![s] = [val |-> Head(out), raw |-> raw,
                                 arr |-> c.arr, kind |-> c.kind]]

\* The payload of the next chunk call c's real function pushes.
NextPayload(c) ==
    Append(IF c.kind = "flush" THEN <<0>> ELSE c.given.pv_value, c.npush + 1)

\* wrapTransform(stream, name): instrumentObject(), instrumentStream(),
\* instrumentTransform().
wrapTransform(o, stream, name) ==
    LET r1 == instrumentObject(o, stream, name)
        r2 == IF r1.ok THEN instrumentStream(r1.o, stream) ELSE r1
    IN  IF r2.ok THEN instrumentTransform(r2.o, stream) ELSE r2

\* The test program makes its stages: new TestTransform() and the
\* instrumentation calls, for t1 and then t2.
NewPipeline ==
    /\ \A s \in XStages : ~isInstrumented(obj, s)
    /\ LET r1 == wrapTransform(obj, "t1", "t1")
           r2 == wrapTransform(r1.o, "t2", "t2")
       IN  /\ obj' = r2.o
           /\ ev' = Event("instrumentTransform", "t1", "t2", r1.ok /\ r2.ok)
    /\ UNCHANGED <<pipes, xfVars, ps>>

\* t.vs_marshalmode = 'marshal', which the tests assign by hand to a stage
\* that has not been fed yet.
SetMarshal(s) ==
    /\ obj[s].xform
    /\ obj[s].vs_marshalmode = "unspecified"
    /\ \A x \in Stages : eng[x].nwritten = 0
    /\ obj' = [obj EXCEPT ![s].vs_marshalmode = "marshal"]
    /\ ev' = Event("assignMarshal", s, s, TRUE)
    /\ UNCHANGED <<pipes, xfVars, ps>>

\* t1.write(chunk) with the next raw chunk.
Write(s) ==
    /\ obj[s].xform
    /\ ~eng[s].ended
    /\ eng[s].nwritten < MaxFeed
    /\ eng' = [eng EXCEPT ![s].wbuf =
                            Append(@, [chunk |-> Raw(<<eng[s].nwritten + 1>>),
                                       arr |-> eng[s].nwritten + 1]),
                          ![s].nwritten = @ + 1]
    /\ ev' = Event("write", s, s, TRUE)
    /\ UNCHANGED <<obj, pipes, calls, lastout, ps, lastwarn, bumps, lastwalk, loop>>

\* t1.end()
End(s) ==
    /\ obj[s].xform
    /\ ~eng[s].ended
    /\ eng' = [eng EXCEPT ![s].ended = TRUE]
    /\ ev' = Event("end", s, s, TRUE)
    /\ UNCHANGED <<obj, pipes, calls, lastout, ps, lastwarn, bumps, lastwalk, loop>>

\* Node calls s._transform(chunk, encoding, callback) with the next chunk.
EngineTransform(s) ==
    /\ obj[s].xform
    /\ eng[s].wbuf # <<>>
    /\ ~eng[s].transforming
    /\ LET w == Head(eng[s].wbuf)
           id == eng[s].ncalls + 1
           r == vsTransform(obj, s, w.chunk, id)
       IN  /\ obj' = r.o
           /\ eng' = [eng EXCEPT ![s].wbuf = Tail(@),
                                 ![s].transforming = TRUE,
                                 ![s].ncalls = id]
           /\ calls' = IF r.ok
                       THEN [calls EXCEPT ![s] =
                                @ \cup {Call(id, "transform", r.given, w.arr)}]
                       ELSE calls
           /\ ev' = Event("_transform", s, s, r.ok)
    /\ UNCHANGED <<pipes, lastout, ps, lastwarn, bumps, lastwalk, loop>>

\* Node calls s._flush(callback): the stage has ended and is idle.
EngineFlush(s) ==
    /\ obj[s].xform
    /\ eng[s].ended
    /\ eng[s].wbuf = <<>>
    /\ ~eng[s].transforming
    /\ ~eng[s].flushed
    /\ LET id == eng[s].ncalls + 1
           r == vsFlush(obj, s, id)
       IN  /\ obj' = r.o
           /\ eng' = [eng EXCEPT ![s].flushed = TRUE, ![s].ncalls = id]
           /\ calls' = IF r.ok
                       THEN [calls EXCEPT ![s] =
                                @ \cup {Call(id, "flush", r.given, 0)}]
                       ELSE calls
           /\ ev' = Event("_flush", s, s, r.ok)
    /\ UNCHANGED <<pipes, lastout, ps, lastwarn, bumps, lastwalk, loop>>

\* Something calls s._transform() although a call on s has not completed.
ReenterTransform(s) ==
    /\ calls[s] # {}
    /\ eng[s].ncalls <= MaxFeed + MaxOut
    /\ LET id == eng[s].ncalls + 1
           r == vsTransform(obj, s, Raw(<<0>>), id)
       IN  /\ obj' = r.o
           /\ eng' = IF r.ok THEN [eng EXCEPT ![s].ncalls = id] ELSE eng
           /\ calls' = IF r.ok
                       THEN [calls EXCEPT ![s] =
                                @ \cup {Call(id, "transform", r.given, 0)}]
                       ELSE calls
           /\ ev' = Event("reenter_transform", s, s, r.ok)
    /\ UNCHANGED <<pipes, lastout, ps, lastwarn, bumps, lastwalk, loop>>

\* Something calls s._flush() although a call on s has not completed.
ReenterFlush(s) ==
    /\ calls[s] # {}
    /\ eng[s].ncalls <= MaxFeed + MaxOut
    /\ LET id == eng[s].ncalls + 1
           r == vsFlush(obj, s, id)
       IN  /\ obj' = r.o
           /\ eng' = IF r.ok THEN [eng EXCEPT ![s].ncalls = id] ELSE eng
           /\ calls' = IF r.ok
                       THEN [calls EXCEPT ![s] =
                                @ \cup {Call(id, "flush", r.given, 0)}]
                       ELSE calls
           /\ ev' = Event("reenter_flush", s, s, r.ok)
    /\ UNCHANGED <<pipes, lastout, ps, lastwarn, bumps, lastwalk, loop>>

\* The real _transform or _flush of call c does this.push(chunk), within
\* the call or from a later tick.
Push(s) ==
    \E c \in calls[s] :
        /\ eng[s].nout < MaxOut
        /\ LET raw == NextPayload(c)
               r == vsPush(obj, s, Raw(raw))
           IN  /\ obj' = r.o
               /\ eng' = IF r.ok
                         THEN RealPush([eng EXCEPT ![s].nout = @ + 1], s, r.out)
                         ELSE eng
               /\ lastout' = IF r.ok THEN Record(s, r.out, raw, c) ELSE lastout
               /\ calls' = IF r.ok
                           THEN [calls EXCEPT ![s] = (@ \ {c}) \cup
                                    {[c EXCEPT !.npush = @ + 1]}]
                           ELSE calls
               /\ ev' = Event("push", s, s, r.ok)
        /\ UNCHANGED <<pipes, ps, lastwarn, bumps, lastwalk, loop>>

\* The real _transform of call c calls callback() or callback(null, chunk);
\* Node's own callback then marks the stage idle.
Complete(s, withValue) ==
    \E c \in calls[s] :
        /\ c.kind = "transform"
        /\ withValue => eng[s].nout < MaxOut
        /\ LET raw == NextPayload(c)
               nargs == IF withValue THEN 2 ELSE 0
               r1 == vsTransformCallback(obj, s, c.id, nargs, FALSE, Raw(raw))
               r2 == IF r1.ok
                     THEN afterTransform(r1.o, s,
                              CallbackArguments(nargs, FALSE, Raw(raw)))
                     ELSE r1
               r == [ok |-> r1.ok /\ r2.ok, o |-> r2.o,
                     out |-> r1.out \o r2.out]
           IN  /\ obj' = r.o
               /\ eng' = IF r.ok
                         THEN RealPush([eng EXCEPT
                                 ![s].transforming = FALSE,
                                 ![s].nout = @ + Len(r.out)], s, r.out)
                         ELSE eng
               /\ lastout' = IF r.ok THEN Record(s, r.out, raw, c) ELSE lastout
               /\ calls' = IF r.ok THEN [calls EXCEPT ![s] = @ \ {c}] ELSE calls
               /\ ev' = Event("callback", s, s, r.ok)
        /\ UNCHANGED <<pipes, ps, lastwarn, bumps, lastwalk, loop>>

\* The real _flush of call c calls callback(); Node's own callback then
\* ends the readable side with this.push(null).
FlushDone(s) ==
    \E c \in calls[s] :
        /\ c.kind = "flush"
        /\ LET r == vsFlushCallback(obj, s, c.id)
               p == vsPush(r.o, s, NullPV)
           IN  /\ obj' = IF r.ok THEN p.o ELSE r.o
               /\ eng' = IF r.ok /\ p.ok THEN RealPush(eng, s, p.out) ELSE eng
               /\ calls' = IF r.ok THEN [calls EXCEPT ![s] = @ \ {c}] ELSE calls
               /\ ev' = Event("flush_callback", s, s, r.ok /\ p.ok)
        /\ UNCHANGED <<pipes, lastout, ps, lastwarn, bumps, lastwalk, loop>>

\* The kinds of warning the program raises; "ninputs" is also the name of a
\* counter the library keeps.
WarnKinds == {"explicit", "ninputs"}

\* Stage s calls this.vsWarn(err, kind), from its real _transform or from
\* anywhere else, with or without a 'warn' listener on the stage; the
\* program raises one warning.
Warn(s, err, kind, observed) ==
    /\ lastwarn.n = 0
    /\ LET r == vsWarn(obj, s, err, kind)
       IN  /\ obj' = r.o
           /\ lastwarn' =
                 IF r.ok
                 THEN [n |-> lastwarn.n + 1, stage |-> s, kind |-> kind,
                       context |-> r.context,
                       active |-> obj[s].vs_context,
                       inputs |-> eng[s].nwritten - Len(eng[s].wbuf),
                       observed |-> observed]
                 ELSE [lastwarn EXCEPT !.n = @ + 1]
           /\ ev' = Event("warn", s, s, r.ok)
    /\ UNCHANGED <<pipes, eng, calls, lastout, ps, bumps, lastwalk, loop>>

NextXform ==
    \/ NewPipeline
    \/ \E s \in XStages : SetMarshal(s)
    \/ Pipe("t1", "t2")
    \/ Write("t1")
    \/ End("t1")
    \/ \E s \in XStages : EngineTransform(s)
    \/ \E s \in XStages : EngineFlush(s)
    \/ \E s \in XStages : Push(s)
    \/ \E s \in XStages : \E withValue \in BOOLEAN : Complete(s, withValue)
    \/ \E s \in XStages : FlushDone(s)

SpecXform == Init /\ [][NextXform]_vars

\* The same program, with calls of _transform and _flush that do not wait
\* for the call in progress.
NextReenter ==
    \/ NewPipeline
    \/ Pipe("t1", "t2")
    \/ Write("t1")
    \/ End("t1")
    \/ \E s \in XStages : EngineTransform(s)
    \/ \E s \in XStages : EngineFlush(s)
    \/ \E s \in XStages : ReenterTransform(s)
    \/ \E s \in XStages : ReenterFlush(s)
    \/ \E s \in XStages : Push(s)
    \/ \E s \in XStages : \E withValue \in BOOLEAN : Complete(s, withValue)
    \/ \E s \in XStages : FlushDone(s)

SpecReenter == Init /\ [][NextReenter]_vars

\* The pipeline t1 | t2, written to and not yet ended, with real functions
\* that also raise warnings; t2 is a sink that pushes nothing.
NextWarn ==
    \/ NewPipeline
    \/ Pipe("t1", "t2")
    \/ Write("t1")
    \/ \E s \in XStages : EngineTransform(s)
    \/ Push("t1")
    \/ \E s \in XStages : Complete(s, FALSE)
    \/ \E s \in XStages : \E err \in {"Error", "string"} :
          \E kind \in WarnKinds \cup {NoName} : \E observed \in BOOLEAN :
             Warn(s, err, kind, observed)

SpecWarn == Init /\ [][NextWarn]_vars

(***************************************************************************)
(* A program that instruments objects by hand and keeps counters of its    *)
(* own on the object that is not a stage of the pipeline t1 | t2, whose    *)
(* counters the library keeps.                                             *)
(***************************************************************************)
\* The names the program gives to the objects it instruments.
Labels == {"first", "second"}

\* mod_vstream.instrumentObject(s, { 'name': name })
Instrument(s, name) ==
    LET r == instrumentObject(obj, s, name)
    IN  /\ obj' = r.o
        /\ ev' = Event("instrumentObject", s, s, r.ok)
        /\ UNCHANGED <<pipes, xfVars, ps>>

\* s.vsCounterBump(k), on an object the program instrumented by hand;
\* the program makes at most MaxBumps such calls on an object.
CounterBump(s, k) ==
    /\ isInstrumented(obj, s)
    /\ ~obj[s].xform
    /\ SumOver(bumps[s], CounterNames) < MaxBumps
    /\ obj' = [obj EXCEPT ![s].vs_counters = vsCounterBump(@, k)]
    /\ bumps' = [bumps EXCEPT ![s][k] = @ + 1]
    /\ ev' = Event("vsCounterBump", s, s, ~vsCounterBumpFails(obj[s].vs_counters))
    /\ UNCHANGED <<pipes, eng, calls, lastout, ps, lastwarn, lastwalk, loop>>

NextCount ==
    \/ NewPipeline
    \/ Write("t1")
    \/ EngineTransform("t1")
    \/ Complete("t1", FALSE)
    \/ \E s \in Stages : \E name \in Labels : Instrument(s, name)
    \/ \E s \in Stages \ XStages : \E k \in CounterNames : CounterBump(s, k)

SpecCount == Init /\ [][NextCount]_vars

NextLink ==
    \/ \E s \in Stages : CallInstrumentObject(s)
    \/ \E s \in Stages : CallInstrumentStream(s)
    \/ \E u, d \in Stages : CallRecordPipe(u, d)
    \/ \E u, d \in Stages : CallRecordUnpipe(u, d)
    \/ \E u, d \in Stages : Pipe(u, d)
    \/ \E u, d \in Stages : Unpipe(u, d)

SpecLink == Init /\ [][NextLink]_vars

\* mod_vstream.instrumentStream(s) on a stage that has its lists already:
\* the program repeats the stage instrumentation of an object once.
Reinstrument(s) ==
    /\ obj[s].links
    /\ obj[s].nlinkpipe = 1
    /\ LET r == instrumentStream(obj, s)
       IN  /\ obj' = r.o
           /\ ev' = Event("instrumentStream", s, s, r.ok)
    /\ UNCHANGED <<pipes, xfVars, ps>>

\* The stages t1 and t2, linked, piped, unpiped and instrumented again.
NextRelink ==
    \/ \E s \in XStages : CallInstrumentObject(s)
    \/ \E s \in XStages : CallInstrumentStream(s)
    \/ \E s \in XStages : Reinstrument(s)
    \/ \E u, d \in XStages : CallRecordPipe(u, d)
    \/ \E u, d \in XStages : CallRecordUnpipe(u, d)
    \/ \E u, d \in XStages : Pipe(u, d)
    \/ \E u, d \in XStages : Unpipe(u, d)

SpecRelink == Init /\ [][NextRelink]_vars

\* s.vsHead(), a method of the objects instrumentStream has been called on;
\* a call that never returns is no step of the program.
CallHead(s) ==
    /\ obj[s].links
    /\ LET r == vsHead(obj, s)
       IN  /\ r.returns
           /\ ev' = Event("vsHead", s, r.stream, r.ok)
    /\ UNCHANGED <<obj, pipes, xfVars, ps>>

\* A program that records links between its stages and asks for heads.
NextHead ==
    \/ \E s \in Stages : CallInstrumentObject(s)
    \/ \E s \in Stages : CallInstrumentStream(s)
    \/ \E u, d \in Stages : CallRecordPipe(u, d)
    \/ \E s \in Stages : CallHead(s)

SpecHead == Init /\ [][NextHead]_vars

(***************************************************************************)
(* The loops of vsHead and vsWalk, one iteration at a time.  loop.at is    *)
(* the variable `stream` of the call in progress, loop.seen the stages it  *)
(* has been at, and loop.again tells that it has come to one of them       *)
(* again (the iterations themselves are not counted).  JavaScript runs a call to its end: while a call is in progress  *)
(* the program does nothing else.                                          *)
(***************************************************************************)
Running(op, s) ==
    [op |-> op, start |-> s, at |-> s, seen |-> {s}, again |-> FALSE,
     odd |-> FALSE]

\* The loop of the call in progress goes on to stage x; loop.odd is the
\* parity of the iterations made.
Goes(x) ==
    [loop EXCEPT !.at = x, !.seen = @ \cup {x},
                 !.again = @ \/ x \in loop.seen, !.odd = ~@]

\* stream.hasOwnProperty('vs_upstreams') && stream.vs_upstreams.length > 0
HasUpstream(s) == obj[s].links /\ Len(obj[s].vs_upstreams) > 0

\* stream.hasOwnProperty('vs_downstreams') &&
\*     stream.vs_downstreams.length > 0
HasDownstream(s) == obj[s].links /\ Len(obj[s].vs_downstreams) > 0

\* s.vsHead() is called: the assertions pass and stream = this.
HeadCall(s) ==
    /\ loop = NoLoop
    /\ obj[s].links
    /\ loop' = Running("vsHead", s)
    /\ ev' = Event("call_vsHead", s, s, TRUE)
    /\ UNCHANGED <<obj, pipes, eng, calls, lastout, ps, lastwarn, bumps,
                   lastwalk>>

\* One iteration of vsHead's loop: stream = stream.vs_upstreams[0].
HeadNext ==
    /\ loop.op = "vsHead"
    /\ HasUpstream(loop.at)
    /\ loop' = Goes(obj[loop.at].vs_upstreams[1])
    /\ ev' = Event("loop_vsHead", loop.start, obj[loop.at].vs_upstreams[1],
                   TRUE)
    /\ UNCHANGED <<obj, pipes, eng, calls, lastout, ps, lastwarn, bumps,
                   lastwalk>>

\* vsHead's loop ends: return (stream).
HeadReturn ==
    /\ loop.op = "vsHead"
    /\ ~HasUpstream(loop.at)
    /\ loop' = NoLoop
    /\ ev' = Event("vsHead", loop.start, loop.at, TRUE)
    /\ UNCHANGED <<obj, pipes, eng, calls, lastout, ps, lastwarn, bumps,
                   lastwalk>>

\* s.vsWalk(func) is called: the assertion passes and stream = this.
WalkCall(s) ==
    /\ loop = NoLoop
    /\ obj[s].links
    /\ loop' = Running("vsWalk", s)
    /\ ev' = Event("call_vsWalk", s, s, TRUE)
    /\ UNCHANGED <<obj, pipes, eng, calls, lastout, ps, lastwarn, bumps,
                   lastwalk>>

\* One iteration of vsWalk's loop on a stream that has a downstream:
\* func(stream, depth), and stream = stream.vs_downstreams[0].
WalkNext ==
    /\ loop.op = "vsWalk"
    /\ HasDownstream(loop.at)
    /\ loop' = Goes(obj[loop.at].vs_downstreams[1])
    /\ ev' = Event("loop_vsWalk", loop.start, obj[loop.at].vs_downstreams[1],
                   TRUE)
    /\ UNCHANGED <<obj, pipes, eng, calls, lastout, ps, lastwarn, bumps,
                   lastwalk>>

\* The last iteration of vsWalk's loop: func(stream, depth), stream = null,
\* and the call returns.
WalkReturn ==
    /\ loop.op = "vsWalk"
    /\ ~HasDownstream(loop.at)
    /\ loop' = NoLoop
    /\ ev' = Event("vsWalk", loop.start, loop.at, TRUE)
    /\ UNCHANGED <<obj, pipes, eng, calls, lastout, ps, lastwarn, bumps,
                   lastwalk>>

\* The call in progress takes its next step.
LoopRuns == HeadNext \/ HeadReturn \/ WalkNext \/ WalkReturn

\* A program that records and removes links between t1 and t2 and calls
\* vsHead and vsWalk.
NextLoop ==
    \/ \E s \in XStages : loop = NoLoop /\ CallInstrumentObject(s)
    \/ \E s \in XStages : loop = NoLoop /\ CallInstrumentStream(s)
    \/ \E u, d \in XStages : loop = NoLoop /\ CallRecordPipe(u, d)
    \/ \E u, d \in XStages : loop = NoLoop /\ CallRecordUnpipe(u, d)
    \/ \E s \in XStages : HeadCall(s)
    \/ HeadNext
    \/ HeadReturn
    \/ \E s \in XStages : WalkCall(s)
    \/ WalkNext
    \/ WalkReturn

\* The JavaScript engine runs the call in progress on.
SpecLoop == Init /\ [][NextLoop]_vars /\ WF_vars(LoopRuns)

\* mod_vstream.instrumentTransform(s), called by the program itself on an
\* object it has not made a Transform stage yet.
CallInstrumentTransform(s) ==
    /\ ~obj[s].xform
    /\ LET r == instrumentTransform(obj, s)
       IN  /\ obj' = r.o
           /\ ev' = Event("callInstrumentTransform", s, s, r.ok)
    /\ UNCHANGED <<pipes, xfVars, ps>>

\* The test program's single stage t1, instrumented step by step, with or
\* without instrumentStream, and fed.
NextBare ==
    \/ \E s \in XStages : CallInstrumentObject(s)
    \/ \E s \in XStages : CallInstrumentStream(s)
    \/ \E s \in XStages : CallInstrumentTransform(s)
    \/ SetMarshal("t1")
    \/ Write("t1")
    \/ EngineTransform("t1")
    \/ Push("t1")
    \/ \E withValue \in BOOLEAN : Complete("t1", withValue)

SpecBare == Init /\ [][NextBare]_vars

\* The real _transform of s does this.push(chunk) when no call on s is in
\* progress: from a timer, after it has called its callback.
LatePush(s) ==
    /\ obj[s].xform
    /\ calls[s] = {}
    /\ eng[s].nout < MaxOut
    /\ LET raw == <<0, eng[s].nout + 1>>
           r == vsPush(obj, s, Raw(raw))
       IN  /\ obj' = r.o
           /\ eng' = IF r.ok
                     THEN RealPush([eng EXCEPT ![s].nout = @ + 1], s, r.out)
                     ELSE eng
           /\ lastout' = IF r.ok /\ r.out # <<>>
                         THEN [lastout EXCEPT ![s] =
                                 [val |-> Head(r.out), raw |-> raw,
                                  arr |-> 0, kind |-> "late"]]
                         ELSE lastout
           /\ ev' = Event("late_push", s, s, r.ok)
    /\ UNCHANGED <<pipes, calls, ps, lastwarn, bumps, lastwalk, loop>>

\* The pipeline t1 | t2, written to and not ended, with real functions that
\* also push late.
NextLate ==
    \/ NewPipeline
    \/ \E s \in XStages : SetMarshal(s)
    \/ Pipe("t1", "t2")
    \/ Write("t1")
    \/ \E s \in XStages : EngineTransform(s)
    \/ \E s \in XStages : Push(s)
    \/ \E s \in XStages : \E withValue \in BOOLEAN : Complete(s, withValue)
    \/ \E s \in XStages : LatePush(s)

SpecLate == Init /\ [][NextLate]_vars

\* The real _transform of call c calls callback(null, chunk, extra).
CompleteExtra(s) ==
    \E c \in calls[s] :
        /\ c.kind = "transform"
        /\ LET raw == NextPayload(c)
               r == vsTransformCallback(obj, s, c.id, 3, FALSE, Raw(raw))
               a == IF r.ok
                    THEN afterTransform(r.o, s,
                             CallbackArguments(3, FALSE, Raw(raw)))
                    ELSE r
               out == r.out \o a.out
           IN  /\ obj' = a.o
               /\ eng' = IF r.ok
                         THEN RealPush([eng EXCEPT
                                 ![s].transforming = FALSE,
                                 ![s].nout = @ + Len(out)], s, out)
                         ELSE eng
               /\ lastout' = IF r.ok THEN Record(s, out, raw, c) ELSE lastout
               /\ calls' = IF r.ok THEN [calls EXCEPT ![s] = @ \ {c}] ELSE calls
               /\ ev' = Event("callback_extra", s, s, r.ok /\ a.ok)
        /\ UNCHANGED <<pipes, ps, lastwarn, bumps, lastwalk, loop>>

\* The real _transform of call c calls callback(err): Node reports the
\* error and takes further chunks when they are written.
CompleteError(s) ==
    \E c \in calls[s] :
        /\ c.kind = "transform"
        /\ LET r == vsTransformCallback(obj, s, c.id, 1, TRUE, NullPV)
           IN  /\ obj' = r.o
               /\ eng' = IF r.ok THEN [eng EXCEPT ![s].transforming = FALSE]
                         ELSE eng
               /\ calls' = IF r.ok THEN [calls EXCEPT ![s] = @ \ {c}] ELSE calls
               /\ ev' = Event("callback_error", s, s, r.ok)
        /\ UNCHANGED <<pipes, lastout, ps, lastwarn, bumps, lastwalk, loop>>

\* The real _transform of call c calls callback() or callback(null, chunk)
\* and Node, from inside its own callback, calls _transform with the next
\* buffered chunk, or _flush when the stage has ended and none is left.
CompleteSync(s, withValue) ==
    \E c \in calls[s] :
        /\ c.kind = "transform"
        /\ withValue => eng[s].nout < MaxOut
        /\ eng[s].wbuf # <<>> \/ (eng[s].ended /\ ~eng[s].flushed)
        /\ LET raw == NextPayload(c)
               nargs == IF withValue THEN 2 ELSE 0
               r1 == vsTransformCallback(obj, s, c.id, nargs, FALSE, Raw(raw))
               r2 == IF r1.ok
                     THEN afterTransform(r1.o, s,
                              CallbackArguments(nargs, FALSE, Raw(raw)))
                     ELSE r1
               out == r1.out \o r2.out
               id == eng[s].ncalls + 1
               more == eng[s].wbuf # <<>>
               r3 == IF more
                     THEN vsTransform(r2.o, s, Head(eng[s].wbuf).chunk, id)
                     ELSE vsFlush(r2.o, s, id)
               e1 == RealPush([eng EXCEPT ![s].nout = @ + Len(out)], s, out)
           IN  IF r1.ok /\ r2.ok
               THEN /\ obj' = r3.o
                    /\ eng' = [e1 EXCEPT
                                 ![s].wbuf = IF more THEN Tail(@) ELSE @,
                                 ![s].transforming = more,
                                 ![s].flushed = ~more,
                                 ![s].ncalls = id]
                    /\ lastout' = Record(s, out, raw, c)
                    /\ calls' = [calls EXCEPT ![s] = (@ \ {c}) \cup
                                  IF ~r3.ok THEN {}
                                  ELSE IF more
                                  THEN {Call(id, "transform", r3.given,
                                             Head(eng[s].wbuf).arr)}
                                  ELSE {Call(id, "flush", r3.given, 0)}]
                    /\ ev' = Event("callback_sync", s, s, r3.ok)
               ELSE /\ obj' = r2.o
                    /\ ev' = Event("callback_sync", s, s, FALSE)
                    /\ UNCHANGED <<eng, lastout, calls>>
        /\ UNCHANGED <<pipes, ps, lastwarn, bumps, lastwalk, loop>>

\* The pipeline t1 | t2 with real functions that complete in every way.
NextDone ==
    \/ NewPipeline
    \/ Pipe("t1", "t2")
    \/ Write("t1")
    \/ End("t1")
    \/ \E s \in XStages : EngineTransform(s)
    \/ \E s \in XStages : EngineFlush(s)
    \/ \E s \in XStages : \E withValue \in BOOLEAN : Complete(s, withValue)
    \/ \E s \in XStages : \E withValue \in BOOLEAN : CompleteSync(s, withValue)
    \/ \E s \in XStages : CompleteError(s)
    \/ \E s \in XStages : CompleteExtra(s)
    \/ \E s \in XStages : FlushDone(s)

SpecDone == Init /\ [][NextDone]_vars

\* The real _transform of call c calls callback(null, null) or
\* callback(null, undefined).
CompleteAbsent(s, v) ==
    \E c \in calls[s] :
        /\ c.kind = "transform"
        /\ eng[s].nout < MaxOut
        /\ LET r1 == vsTransformCallback(obj, s, c.id, 2, FALSE, Raw(v))
               r2 == IF r1.ok
                     THEN afterTransform(r1.o, s,
                              CallbackArguments(2, FALSE, Raw(v)))
                     ELSE r1
               out == r1.out \o r2.out
               values == SelectSeq(out, LAMBDA chunk : ~IsEof(chunk))
           IN  /\ obj' = r2.o
               /\ eng' = IF r1.ok /\ r2.ok
                         THEN RealPush([eng EXCEPT
                                 ![s].transforming = FALSE,
                                 ![s].nout = @ + Len(values)], s, out)
                         ELSE eng
               /\ lastout' = IF r1.ok /\ r2.ok /\ values # <<>>
                             THEN Record(s, values, v, c)
                             ELSE lastout
               /\ calls' = IF r1.ok /\ r2.ok
                           THEN [calls EXCEPT ![s] = @ \ {c}]
                           ELSE calls
               /\ ev' = Event("callback_absent", s, s, r1.ok /\ r2.ok)
        /\ UNCHANGED <<pipes, ps, lastwarn, bumps, lastwalk, loop>>

\* The pipeline t1 | t2, with or without t2 set to marshal by the program,
\* whose real functions complete with a result, with none, or with null or
\* undefined for a result.
NextAbsent ==
    \/ NewPipeline
    \/ SetMarshal("t2")
    \/ Pipe("t1", "t2")
    \/ Write("t1")
    \/ \E s \in XStages : EngineTransform(s)
    \/ \E s \in XStages : \E withValue \in BOOLEAN : Complete(s, withValue)
    \/ \E s \in XStages : \E v \in {Null, Undefined} :
          CompleteAbsent(s, v)

SpecAbsent == Init /\ [][NextAbsent]_vars

(***************************************************************************)
(* Programs that build PipelineStream objects over their stages and link   *)
(* them with pipe().                                                       *)
(***************************************************************************)
\* The model follows at most MaxLinks + 1 connections between all objects.
FitsAll(o) ==
    SumOver([x \in Objects |-> Len(o[x].vs_downstreams)], Objects)
        <= MaxLinks + 1

\* mod_vstream.wrapStream(s, name)
WrapStream(s) ==
    /\ ~isInstrumented(obj, s)
    /\ LET r == wrapStream(obj, s, s)
       IN  /\ obj' = r.o
           /\ ev' = Event("wrapStream", s, s, r.ok)
    /\ UNCHANGED <<pipes, xfVars, ps>>

\* mod_vstream.wrapTransform(s, name)
WrapTransform(s) ==
    /\ ~isInstrumented(obj, s)
    /\ LET r == wrapTransform(obj, s, s)
       IN  /\ obj' = r.o
           /\ ev' = Event("wrapTransform", s, s, r.ok)
    /\ UNCHANGED <<pipes, xfVars, ps>>

\* p = new PipelineStream({ streams: streams, noPipe: noPipe }); when the
\* constructor throws the program has no new object.
NewComposite(p, streams, noPipe) ==
    /\ obj[p] = RawObject
    /\ \A i \in 1..Len(streams) : obj[streams[i]].ps_streams = <<>>
    /\ LET r == PipelineStream(obj, pipes, p, streams, noPipe)
       IN  /\ FitsAll(r.o)
           /\ Cardinality(r.pipes) <= MaxLinks + 1
           /\ obj' = IF r.ok THEN r.o ELSE [r.o EXCEPT ![p] = RawObject]
           /\ pipes' = r.pipes
           /\ ev' = Event(IF noPipe THEN "PipelineStream_noPipe"
                          ELSE "PipelineStream", p, streams[1], r.ok)
    /\ UNCHANGED <<xfVars, ps>>

\* source.pipe(destination), between any two objects.
PipeObjects(source, destination) ==
    /\ source # destination
    /\ <<source, destination>> \notin pipes
    /\ Cardinality(pipes) <= MaxLinks
    /\ LET r == EmitPipe(obj, destination, source)
       IN  /\ FitsAll(r.o)
           /\ obj' = r.o
           /\ ev' = Event("pipe", source, destination, r.ok)
    /\ pipes' = pipes \cup {<<source, destination>>}
    /\ UNCHANGED <<xfVars, ps>>

\* s.vsWalk(func, depth); a call that never returns is no step of the
\* program.
CallWalk(s, depth) ==
    /\ obj[s].links
    /\ LET r == vsWalk(obj, s, depth)
       IN  /\ r.returns
           /\ lastwalk' = [n |-> 1, start |-> s, visits |-> r.visits]
           /\ ev' = Event("vsWalk", s, s, r.ok)
    /\ UNCHANGED <<obj, pipes, eng, calls, lastout, ps, lastwarn, bumps, loop>>

\* The stream lists the program builds composites over.
StreamLists == {<<"t2">>, <<"t1", "t2">>}

\* A program that wraps its streams, builds one PipelineStream, pipes what
\* it has wrapped, and then walks what it has built.
NextWalk ==
    \/ \E s \in Stages : lastwalk = NoWalk /\ WrapStream(s)
    \/ \E streams \in StreamLists : \E noPipe \in BOOLEAN :
          lastwalk = NoWalk /\ NewComposite("P", streams, noPipe)
    \/ \E u, d \in Stages \cup {"P"} :
          /\ lastwalk = NoWalk
          /\ obj[u].links /\ obj[d].links
          /\ PipeObjects(u, d)
    \/ \E s \in Stages \cup {"P"} : \E depth \in {0, 1} :
          CallWalk(s, depth)

SpecWalk == Init /\ [][NextWalk]_vars

\* The stream lists of the program below.
BuildLists == {<<"t1">>, <<"t1", "t2">>, <<"t2", "t3">>, <<"t1", "t2", "t3">>}

\* A program that wraps its streams, pipes some of them itself, and builds
\* one PipelineStream over some of them, wrapped or not.
NextBuild ==
    \/ \E s \in Stages : WrapStream(s)
    \/ \E streams \in BuildLists : \E noPipe \in BOOLEAN :
          NewComposite("P", streams, noPipe)
    \/ \E u, d \in Stages :
          obj[u].links /\ obj[d].links /\ PipeObjects(u, d)

SpecBuild == Init /\ [][NextBuild]_vars

\* instrumentObject(s, { 'name': name }); instrumentTransform(s): a stage
\* that is instrumented as the first test's stage is, without
\* instrumentStream.
BareTransform(s) ==
    /\ ~isInstrumented(obj, s)
    /\ LET r1 == instrumentObject(obj, s, s)
           r2 == IF r1.ok THEN instrumentTransform(r1.o, s) ELSE r1
       IN  /\ obj' = r2.o
           /\ ev' = Event("bareTransform", s, s, r2.ok)
    /\ UNCHANGED <<pipes, xfVars, ps>>

\* The program below feeds t2 one chunk, if at all, before it does anything
\* else, and goes on when t2 is done with it.
Unbuilt ==
    /\ pipes = {}
    /\ \A x \in Objects \ {"t2"} :
          ~isInstrumented(obj, x) /\ obj[x].ps_streams = <<>>

Settled ==
    calls["t2"] = {} /\ eng["t2"].wbuf = <<>> /\ ~eng["t2"].transforming

\* A program that instruments its streams with or without
\* instrumentStream and instrumentTransform, builds the PipelineStream P
\* over t2 or over t1 and t2, and Q over t3, before or after their streams
\* are instrumented, and pipes P into t3 and P, t1 and t2 into Q.
NextMarshal ==
    \/ \E s \in {"t2", "t3"} : Settled /\ WrapStream(s)
    \/ \E s \in Stages : Settled /\ WrapTransform(s)
    \/ Settled /\ BareTransform("t1")
    \/ Unbuilt /\ eng["t2"].nwritten = 0 /\ Write("t2")
    \/ Unbuilt /\ EngineTransform("t2")
    \/ Unbuilt /\ Push("t2")
    \/ Unbuilt /\ Complete("t2", FALSE)
    \/ \E streams \in StreamLists : \E noPipe \in BOOLEAN :
          Settled /\ NewComposite("P", streams, noPipe)
    \/ Settled /\ NewComposite("Q", <<"t3">>, FALSE)
    \/ \E u \in {"P", "t1", "t2"} : \E d \in {"Q", "t3"} :
          /\ Settled
          /\ u = "P" \/ d = "Q"
          /\ PipeObjects(u, d)

SpecMarshal == Init /\ [][NextMarshal]_vars

(***************************************************************************)
(* The composite PipelineStream P of lib/stream-pipeline.js, seen from its *)
(* readable side: P's outgoing buffer rbuf, the readable buffer tbuf of    *)
(* its last stream ps_tail, and a consumer that reads P.  Chunks are the   *)
(* payloads <<1>>, <<2>>, ... in the order the tail produced them, and the *)
(* streams are in object mode, so that a buffer's length is its number of  *)
(* chunks.                                                                 *)
(*                                                                         *)
(* Node's stream machinery is not part of the library; it is modelled by   *)
(* what a Readable does for its implementation:                            *)
(*   - read(n) calls _read when no _read is outstanding and                *)
(*     length - n <= highWaterMark, then takes n chunks off the buffer;    *)
(*   - push(chunk) appends the chunk, ends the outstanding _read and       *)
(*     answers whether length < highWaterMark;                             *)
(*   - read(1) on an empty buffer answers null and sets needReadable, as   *)
(*     does a read that empties the buffer; a push into a buffer whose     *)
(*     needReadable is set emits 'readable' before it returns, and a       *)
(*     'readable' may also be emitted again later with no new chunk.       *)
(* The fields by, entry, pulled, stop, nfwd, made, got and foreign of ps   *)
(* are history: who called _read in the last step, the buffer length it    *)
(* found, the number of ps_tail.read calls it made, how the loop last      *)
(* ended, and counts of the chunks pushed outward, produced by the tail,   *)
(* read by the consumer and put back by the consumer.                      *)
(***************************************************************************)
\* this.ps_tail.read(1)
TailRead(p) ==
    IF p.tbuf = <<>>
    THEN [chunk |-> Null, p |-> [p EXCEPT !.tneed = TRUE]]
    ELSE [chunk |-> Head(p.tbuf),
          p |-> [p EXCEPT !.tbuf = Tail(@),
                          !.tneed = @ \/ Len(p.tbuf) = 1]]

\* this.push(chunk)
PushOut(p, chunk) ==
    LET q == [p EXCEPT !.rbuf = Append(@, chunk),
                       !.reading = FALSE,
                       !.nfwd = @ + 1,
                       !.pushed = Append(@, chunk)]
    IN  [more |-> Len(q.rbuf) < q.hwm, p |-> q]

RECURSIVE ReadLoop_ignoreFull(_)
ReadLoop_ignoreFull(p) ==
    LET r == TailRead(p)
        q == [r.p EXCEPT !.pulled = @ + 1]
    IN  IF r.chunk = Null
        THEN [q EXCEPT !.ps_needreadable = TRUE, !.stop = "null"]
        ELSE ReadLoop_ignoreFull(PushOut(q, r.chunk).p)

RECURSIVE ReadLoop_noMark(_)
ReadLoop_noMark(p) ==
    LET r == TailRead(p)
        q == [r.p EXCEPT !.pulled = @ + 1]
    IN  IF r.chunk = Null
        THEN [q EXCEPT !.stop = "null"]
        ELSE LET w == PushOut(q, r.chunk)
             IN  IF ~w.more
                 THEN [w.p EXCEPT !.stop = "full"]
                 ELSE ReadLoop_noMark(w.p)

RECURSIVE ReadLoop_pullAhead(_)
ReadLoop_pullAhead(p) ==
    LET r == TailRead(p)
        q == [r.p EXCEPT !.pulled = @ + 1]
    IN  IF r.chunk = Null
        THEN [q EXCEPT !.ps_needreadable = TRUE, !.stop = "null"]
        ELSE IF Len(q.rbuf) >= q.hwm
        THEN [q EXCEPT !.stop = "full"]
        ELSE ReadLoop_pullAhead(PushOut(q, r.chunk).p)

\* The for (;;) loop of _read.
RECURSIVE ReadLoop(_)
ReadLoop(p) ==
    LET r == TailRead(p)
        q == [r.p EXCEPT !.pulled = @ + 1]
    IN  IF r.chunk = Null
        THEN [q EXCEPT !.ps_needreadable = TRUE, !.stop = "null"]
        ELSE LET w == PushOut(q, r.chunk)
             IN  IF ~w.more
                 THEN [w.p EXCEPT !.stop = "full"]
                 ELSE ReadLoop(w.p)

\* PipelineStream.prototype._read
PipelineStream_read(p) ==
    LET e == [p EXCEPT !.entry = Len(p.rbuf), !.pulled = 0]
    IN  IF Len(p.rbuf) > p.hwm + 1
        THEN Throw([e EXCEPT !.stop = "throw"])
        ELSE Ok(ReadLoop(e))

onTailReadable_unguarded(p) ==
    PipelineStream_read([p EXCEPT !.ps_needreadable = FALSE, !.by = "tail"])

\* PipelineStream.prototype.onTailReadable
onTailReadable(p) ==
    IF ~p.ps_needreadable
    THEN Ok(p)
    ELSE PipelineStream_read([p EXCEPT !.ps_needreadable = FALSE,
                                       !.by = "tail"])

\* The state with the history of the last step cleared.
Idle(p) == [p EXCEPT !.by = "none", !.entry = 0, !.pulled = 0]

\* new PipelineStream({streams, streamOptions: {highWaterMark: h}}): the
\* 'readable' listener registered on the still empty tail makes the tail
\* want a 'readable' event.
NewPipelineStream(h) ==
    /\ ~ps.built
    /\ ps' = [NoComposite EXCEPT !.built = TRUE, !.hwm = h, !.tneed = TRUE]
    /\ ev' = Event("PipelineStream", "P", "tail", TRUE)
    /\ UNCHANGED <<obj, pipes, xfVars>>

\* The tail pushes its next chunk into its readable buffer and, if the
\* buffer wants it, emits 'readable'.
TailPush ==
    /\ ps.built
    /\ ~ps.tended
    /\ ps.made < MaxUnits
    /\ LET p == [Idle(ps) EXCEPT !.made = @ + 1,
                                 !.tbuf = Append(@, <<ps.made + 1>>)]
           r == IF ps.tneed
                THEN onTailReadable([p EXCEPT !.tneed = FALSE])
                ELSE Ok(p)
       IN  /\ ps' = r.o
           /\ ev' = Event(IF ps.tneed THEN "readable" ELSE "tail_push",
                          "P", "tail", r.ok)
    /\ UNCHANGED <<obj, pipes, xfVars>>

\* The tail emits 'readable' with no new chunk.
TailReadable ==
    /\ ps.built
    /\ LET r == onTailReadable(Idle(ps))
       IN  /\ ps' = r.o
           /\ ev' = Event("readable", "P", "tail", r.ok)
    /\ UNCHANGED <<obj, pipes, xfVars>>

\* The consumer calls P.read(n), n = 0 or 1.
ConsumerRead(n) ==
    /\ ps.built
    /\ LET p == Idle(ps)
           doRead == ~p.reading /\ ~p.eos /\ Len(p.rbuf) - n <= p.hwm
           r == IF doRead
                THEN PipelineStream_read([p EXCEPT !.reading = TRUE,
                                                   !.by = "engine"])
                ELSE Ok(p)
           q == r.o
       IN  /\ ps' = IF r.ok /\ n > 0 /\ q.rbuf # <<>>
                    THEN [q EXCEPT !.rbuf = Tail(@),
                                   !.got = Append(@, Head(q.rbuf))]
                    ELSE q
           /\ ev' = Event("read", "P", "consumer", r.ok)
    /\ UNCHANGED <<obj, pipes, xfVars>>

\* The consumer puts the chunk it read last back with P.unshift(chunk).
Unshift ==
    /\ ps.built
    /\ ps.got # <<>>
    /\ ps.foreign < MaxUnshift
    /\ ps' = [Idle(ps) EXCEPT !.rbuf = <<ps.got[Len(ps.got)]>> \o @,
                              !.got = SubSeq(@, 1, Len(@) - 1),
                              !.foreign = @ + 1]
    /\ ev' = Event("unshift", "P", "consumer", TRUE)
    /\ UNCHANGED <<obj, pipes, xfVars>>

\* The 'end' listener the constructor puts on ps_tail: self.push(null).
onTailEnd(p) ==
    [p EXCEPT !.reading = FALSE, !.eos = TRUE, !.pushed = Append(@, Null)]

\* The tail's producer ends it (the tail's own push(null)); a tail that
\* still holds chunks and wants a 'readable' event emits one.
TailEnd ==
    /\ ps.built
    /\ ~ps.tended
    /\ LET p == [Idle(ps) EXCEPT !.tended = TRUE]
           fire == ps.tneed /\ ps.tbuf # <<>>
           r == IF fire
                THEN onTailReadable([p EXCEPT !.tneed = FALSE])
                ELSE Ok(p)
       IN  /\ ps' = r.o
           /\ ev' = Event(IF fire THEN "readable" ELSE "tail_end",
                          "P", "tail", r.ok)
    /\ UNCHANGED <<obj, pipes, xfVars>>

\* The ended tail, read empty, emits 'end'.
TailEmitEnd ==
    /\ ps.built
    /\ ps.tended
    /\ ps.tbuf = <<>>
    /\ ~ps.tendemitted
    /\ ps' = [onTailEnd(Idle(ps)) EXCEPT !.tendemitted = TRUE]
    /\ ev' = Event("end", "P", "tail", TRUE)
    /\ UNCHANGED <<obj, pipes, xfVars>>

NextPipe ==
    \/ \E h \in 1..MaxHwm : NewPipelineStream(h)
    \/ TailPush
    \/ TailReadable
    \/ \E n \in {0, 1} : ConsumerRead(n)
    \/ Unshift

SpecPipe == Init /\ [][NextPipe]_vars

\* The same composite with a consumer that keeps reading and never puts a
\* chunk back.
NextPipeFair ==
    \/ \E h \in 1..MaxHwm : NewPipelineStream(h)
    \/ TailPush
    \/ TailReadable
    \/ \E n \in {0, 1} : ConsumerRead(n)

SpecPipeFair == Init /\ [][NextPipeFair]_vars /\ WF_vars(ConsumerRead(1))

\* The composite with a tail that ends, a consumer that keeps reading and
\* an engine that delivers the tail's 'end'.
NextPipeEnd ==
    \/ \E h \in 1..MaxHwm : NewPipelineStream(h)
    \/ TailPush
    \/ TailEnd
    \/ TailEmitEnd
    \/ TailReadable
    \/ \E n \in {0, 1} : ConsumerRead(n)

SpecPipeEnd ==
    /\ Init
    /\ [][NextPipeEnd]_vars
    /\ WF_vars(ConsumerRead(1))
    /\ WF_vars(TailEmitEnd)

(***************************************************************************)
(* The writable side of the composite and its error listeners.  A writer   *)
(* writes the chunks <<1>>, <<2>>, ... to P and ends it.  Node's Writable  *)
(* calls P._write with one chunk at a time, the next one when the callback *)
(* of the last has been called, and emits 'finish' once end() has been     *)
(* called and every chunk written has completed.  The head calls the       *)
(* callback of a write when it has taken the chunk.                        *)
(* History fields of ps: wq the chunks P's Writable still holds, nw the    *)
(* number of chunks written to P, hin what the head has been given (null   *)
(* for end()), hpend the callbacks the head still holds, hdone and ndone   *)
(* the numbers of writes the head completed and of P's callbacks called,   *)
(* serrors and perrors the errors emitted by the streams and by P.         *)
(***************************************************************************)
PipeStreams == 1..3

ErrorValues == {"e1", "e2"}

PipelineStream_write_early(p, chunk) ==
    [p EXCEPT !.hin = Append(@, chunk), !.ndone = @ + 1]

\* PipelineStream.prototype._write: this.ps_head.write(chunk, encoding,
\* callback).
PipelineStream_write(p, chunk) ==
    [p EXCEPT !.hin = Append(@, chunk), !.hpend = Append(@, chunk)]

\* The 'finish' listener of the constructor: self.ps_head.end().
onFinish(p) == [p EXCEPT !.hin = Append(@, Null)]

onStageError_endsOnly(p, i, e) ==
    IF i \in {1, 3} THEN [p EXCEPT !.perrors = Append(@, e)] ELSE p

\* The 'error' listener the constructor puts on ps_streams[i]:
\* this.emit.bind(this, 'error').
onStageError(p, i, e) == [p EXCEPT !.perrors = Append(@, e)]

\* Node's Writable with nothing in progress: hand the next chunk to _write,
\* or emit 'finish' when ended and drained.
Drain(p) ==
    IF p.pwriting THEN p
    ELSE IF p.wq # <<>>
    THEN LET q == PipelineStream_write([p EXCEPT !.wq = Tail(@)], Head(p.wq))
         IN  [q EXCEPT !.pwriting = (q.ndone = p.ndone)]
    ELSE IF p.pended /\ Len(p.hin) = p.nw
    THEN onFinish(p)
    ELSE p

\* The writer calls P.write(chunk).
PWrite ==
    /\ ps.built
    /\ ~ps.pended
    /\ ps.nw < MaxWrites
    /\ ps' = Drain([Idle(ps) EXCEPT !.nw = @ + 1,
                                    !.wq = Append(@, <<ps.nw + 1>>)])
    /\ ev' = Event("write", "P", "writer", TRUE)
    /\ UNCHANGED <<obj, pipes, xfVars>>

\* The writer calls P.end().
PEnd ==
    /\ ps.built
    /\ ~ps.pended
    /\ ps' = Drain([Idle(ps) EXCEPT !.pended = TRUE])
    /\ ev' = Event("end", "P", "writer", TRUE)
    /\ UNCHANGED <<obj, pipes, xfVars>>

\* The head has taken its oldest chunk and calls the callback of that write.
HeadDone ==
    /\ ps.built
    /\ ps.hpend # <<>>
    /\ ps' = Drain([Idle(ps) EXCEPT !.hpend = Tail(@),
                                    !.hdone = @ + 1,
                                    !.ndone = @ + 1,
                                    !.pwriting = FALSE])
    /\ ev' = Event("write_callback", "P", "head", TRUE)
    /\ UNCHANGED <<obj, pipes, xfVars>>

\* Stream i of the pipeline emits 'error' with value e.
StageError(i, e) ==
    /\ ps.built
    /\ Len(ps.serrors) < MaxErrors
    /\ ps' = onStageError([Idle(ps) EXCEPT !.serrors = Append(@, <<i, e>>)],
                          i, e)
    /\ ev' = Event("error", "P", "stream", TRUE)
    /\ UNCHANGED <<obj, pipes, xfVars>>

NextPipeIn ==
    \/ \E h \in 1..MaxHwm : NewPipelineStream(h)
    \/ PWrite
    \/ PEnd
    \/ HeadDone
    \/ \E i \in PipeStreams : \E e \in ErrorValues : StageError(i, e)

SpecPipeIn == Init /\ [][NextPipeIn]_vars /\ WF_vars(HeadDone)

(***************************************************************************)
(* C1: linkage is mutual with equal multiplicity.  For every pair of       *)
(* stages A and B, B occurs in A.vs_downstreams exactly as many times as A *)
(* occurs in B.vs_upstreams, after any sequence of vsRecordPipe,           *)
(* vsRecordUnpipe and 'pipe' events on stage-instrumented stages.          *)
(***************************************************************************)
C1_MutualLinkage ==
    \A a, b \in Stages :
        Count(b, obj[a].vs_downstreams) = Count(a, obj[b].vs_upstreams)

\* A pair recorded twice of which one occurrence has just been removed.
C1_Witness ==
    /\ ev.op = "vsRecordUnpipe"
    /\ ev.ok
    /\ Count(ev.peer, obj[ev.stage].vs_downstreams) = 1
    /\ Count(ev.stage, obj[ev.peer].vs_upstreams) = 1

(***************************************************************************)
(* C2: per-stage exclusivity.  A stage's context is non-empty exactly      *)
(* while one _transform or _flush call on it has started and not           *)
(* completed; a call that starts while the context is non-empty throws     *)
(* before ninputs is bumped and before the real function is called, so no  *)
(* stage ever has two calls in progress.                                   *)
(***************************************************************************)
C2_Exclusive ==
    \A s \in XStages :
        /\ Cardinality(calls[s]) <= 1
        /\ (obj[s].vs_context # NullPV) <=> (calls[s] # {})
        /\ \A c \in calls[s] : obj[s].ctx_id = c.id
        /\ (ev.op \in {"reenter_transform", "reenter_flush"} /\ ev.stage = s)
              => ~ev.ok
        /\ CounterOrZero(obj[s].vs_counters, "ninputs")
              = eng[s].nwritten - Len(eng[s].wbuf)

\* A _flush call on t2 has just been refused while t2 handles its second
\* input.
C2_Witness ==
    /\ ev = Event("reenter_flush", "t2", "t2", FALSE)
    /\ \E c \in calls["t2"] : c.kind = "transform" /\ c.arr = 2
    /\ obj["t2"].vs_context # NullPV

(***************************************************************************)
(* C3: the marshal mode is pinned.  It is 'unspecified' when               *)
(* instrumentTransform returns; the library changes it only from           *)
(* 'unspecified' to 'marshal', when the stage is piped into a transform-   *)
(* instrumented stage, and from 'unspecified' to 'nomarshal', on the       *)
(* stage's first non-null push; 'marshal' and 'nomarshal' never change.    *)
(***************************************************************************)
C3_ModeStep(s) ==
    LET m == obj[s].vs_marshalmode
        n == obj'[s].vs_marshalmode
    IN  \/ n = m
        \/ ev'.op = "assignMarshal"
        \/ /\ m = "undefined" /\ n = "unspecified"
           /\ ev'.op = "instrumentTransform"
        \/ /\ m = "unspecified" /\ n = "marshal"
           /\ ev'.op = "pipe" /\ ev'.stage = s /\ obj[ev'.peer].xform
        \/ /\ m = "unspecified" /\ n = "nomarshal"
           /\ ev'.op \in {"push", "callback"} /\ ev'.stage = s
           /\ eng[s].nout = 0 /\ eng'[s].nout = 1

C3_MarshalPinned == [][\A s \in Stages : C3_ModeStep(s)]_vars

\* t1 pushed before it was piped into t2, and is piped now.
C3_Witness ==
    /\ ev = Event("pipe", "t1", "t2", TRUE)
    /\ obj["t2"].xform
    /\ obj["t1"].vs_marshalmode = "nomarshal"
    /\ eng["t1"].nout > 0

(***************************************************************************)
(* C4: a single marshaling stage fed raw chunks.  Every chunk t1 pushes    *)
(* while it handles the k-th chunk written to it is a ProvenanceValue      *)
(* holding the pushed payload and exactly one history entry,               *)
(* {pvp_source: 't1', pvp_input: k}, whatever the number of chunks pushed  *)
(* for that input or for the inputs before it.                             *)
(***************************************************************************)
C4_SingleStageHistory ==
    (obj["t1"].vs_marshalmode = "marshal" /\ lastout["t1"].kind = "transform")
        => lastout["t1"].val =
              [isPV |-> TRUE,
               pv_value |-> lastout["t1"].raw,
               pv_provenance |->
                  <<[pvp_source |-> "t1", pvp_input |-> lastout["t1"].arr]>>]

\* The second input has produced two chunks, the first input none.
C4_Witness ==
    /\ obj["t1"].vs_marshalmode = "marshal"
    /\ lastout["t1"].kind = "transform"
    /\ lastout["t1"].arr = 2
    /\ \E c \in calls["t1"] : c.arr = 2 /\ c.npush = 2
    /\ eng["t1"].nout = 2

(***************************************************************************)
(* C5: the chain t1 | t2 with both stages marshaling.  Every chunk t2      *)
(* pushes while it handles an input carries two history entries, oldest    *)
(* first: t1's entry, with the number of inputs t1 had taken when it       *)
(* pushed that input, then t2's entry with the index of the input t2 is    *)
(* handling; and a call on one stage leaves the other stage's context and  *)
(* counters alone.                                                         *)
(***************************************************************************)
XformOps == {"_transform", "_flush", "push", "callback", "flush_callback"}

\* The number of inputs t1 had taken when its real function pushed a chunk
\* of payload p: the input that payload derives from, or every input for a
\* chunk pushed by _flush.
T1Input(p) == IF p[1] = 0 THEN eng["t1"].nwritten ELSE p[1]

C5_TwoEntries ==
    (/\ obj["t1"].vs_marshalmode = "marshal"
     /\ obj["t2"].vs_marshalmode = "marshal"
     /\ lastout["t2"].kind = "transform")
        => lastout["t2"].val =
              [isPV |-> TRUE,
               pv_value |-> lastout["t2"].raw,
               pv_provenance |->
                  <<[pvp_source |-> "t1",
                     pvp_input |-> T1Input(lastout["t2"].raw)],
                    [pvp_source |-> "t2", pvp_input |-> lastout["t2"].arr]>>]

C5_OtherStageUntouched ==
    \A s \in XStages :
        (ev'.op \in XformOps /\ ev'.stage # s)
            => /\ obj'[s].vs_context = obj[s].vs_context
               /\ obj'[s].vs_counters = obj[s].vs_counters

C5_ChainHistory == []C5_TwoEntries /\ [][C5_OtherStageUntouched]_vars

\* t2 pushes for its second input while t1 is in the middle of a call.
C5_Witness ==
    /\ obj["t1"].vs_marshalmode = "marshal"
    /\ obj["t2"].vs_marshalmode = "marshal"
    /\ lastout["t2"].kind = "transform"
    /\ lastout["t2"].arr = 2
    /\ Len(lastout["t2"].val.pv_provenance) = 2
    /\ calls["t1"] # {}
    /\ ev = Event("push", "t2", "t2", TRUE)

(***************************************************************************)
(* C6: flush.  Every chunk a marshaling stage pushes during its _flush     *)
(* call carries exactly one history entry, naming the stage with the       *)
(* number of inputs the stage has handled, and the stage's context is null *)
(* again when the _flush callback has run.                                 *)
(***************************************************************************)
C6_FlushHistory ==
    \A s \in XStages :
        /\ (obj[s].vs_marshalmode = "marshal" /\ lastout[s].kind = "flush")
              => lastout[s].val =
                    [isPV |-> TRUE,
                     pv_value |-> lastout[s].raw,
                     pv_provenance |->
                        <<[pvp_source |-> s, pvp_input |-> eng[s].nwritten]>>]
        /\ (ev.op = "flush_callback" /\ ev.stage = s /\ ev.ok)
              => obj[s].vs_context = NullPV

\* t2, fed marshaled chunks by t1, has pushed during _flush and completed.
C6_Witness ==
    /\ ev = Event("flush_callback", "t2", "t2", TRUE)
    /\ obj["t2"].vs_marshalmode = "marshal"
    /\ lastout["t2"].kind = "flush"
    /\ eng["t2"].nwritten >= 1
    /\ obj["t1"].vs_marshalmode = "marshal"

(***************************************************************************)
(* C7: transparency.  The real _transform is always called with the bare   *)
(* payload, never a ProvenanceValue, whether the upstream marshals or not; *)
(* a stage that does not marshal hands the pushed payloads themselves to   *)
(* its consumer, and they are the payloads of the values it hands on when  *)
(* it marshals.                                                            *)
(***************************************************************************)
C7_Transparent ==
    \A s \in XStages :
        /\ \A c \in calls[s] : ~c.given.isPV
        /\ lastout[s].kind # "none" =>
              /\ lastout[s].val.pv_value = lastout[s].raw
              /\ lastout[s].val.isPV <=> (obj[s].vs_marshalmode = "marshal")
              /\ ~lastout[s].val.isPV => lastout[s].val = Raw(lastout[s].raw)

\* t1 marshals into t2, and t2, read by a plain 'data' listener, has pushed
\* a bare payload derived from t1's output.
C7_Witness ==
    /\ obj["t1"].vs_marshalmode = "marshal"
    /\ obj["t2"].vs_marshalmode = "nomarshal"
    /\ lastout["t2"].kind = "transform"
    /\ lastout["t2"].val = Raw(lastout["t2"].raw)
    /\ Len(lastout["t2"].raw) = 3

C8_BufferFull ==
    /\ ps.built
    /\ ps.foreign = 0
    /\ Len(ps.rbuf) = ps.hwm + 1
    /\ ps.by = "tail"

C9_Marked ==
    (ps.by # "none" /\ ps.stop = "null") => ps.ps_needreadable

C9_Resumes ==
    (ev'.op = "readable" /\ ps.ps_needreadable)
        => /\ ps'.by = "tail"
           /\ ps'.ps_needreadable <=> (ps'.stop = "null")
           /\ (ev'.ok /\ ps'.tbuf # <<>>) => ps'.stop = "full"
           /\ (ev'.ok /\ ps.tbuf # <<>>) => ps'.nfwd > ps.nfwd

C9_Forwarded ==
    \A k \in 1..MaxUnits : (ps.made >= k) ~> (ps.nfwd >= k)

C9_NoLostWakeup == []C9_Marked /\ [][C9_Resumes]_vars /\ C9_Forwarded

\* The loop had stopped on a null, a chunk arrived while the consumer was
\* reading, and the 'readable' it raised has pushed it outward.
C9_Witness ==
    /\ ev = Event("readable", "P", "tail", TRUE)
    /\ ps.by = "tail"
    /\ ps.got # <<>>
    /\ ps.nfwd = ps.made
    /\ ps.made >= 2
    /\ ps.stop = "null"

(***************************************************************************)
(* C10: the loop yields at saturation.  Once a push has answered false, P  *)
(* does not read the tail again before the engine calls _read; and a       *)
(* 'readable' from the tail that finds ps_needreadable clear reads nothing *)
(* and pushes nothing.                                                     *)
(***************************************************************************)
C10_Yields ==
    /\ (ps.stop = "full" /\ ps'.by # "engine")
          => /\ ps'.pulled = 0
             /\ ps'.nfwd = ps.nfwd
             /\ ps'.stop = "full"
    /\ (ev'.op = "readable" /\ ~ps.ps_needreadable)
          => /\ ps'.pulled = 0
             /\ ps'.nfwd = ps.nfwd
             /\ ps'.rbuf = ps.rbuf
             /\ SubSeq(ps'.tbuf, 1, Len(ps.tbuf)) = ps.tbuf

C10_YieldsAtSaturation == [][C10_Yields]_vars

\* P is saturated, a chunk has arrived at the tail, and the 'readable' it
\* raised has left it there.
C10_Witness ==
    /\ ev = Event("readable", "P", "tail", TRUE)
    /\ ps.stop = "full"
    /\ ps.by = "none"
    /\ ~ps.ps_needreadable
    /\ ps.tbuf # <<>>
    /\ Len(ps.rbuf) >= ps.hwm

(***************************************************************************)
(* C11: the output side of the composite.  What P pushes outward is what   *)
(* it read from the tail, chunk for chunk in the same order, and what the  *)
(* consumer is given is that sequence; null is pushed last, only once the  *)
(* tail has emitted 'end', and a tail that ends has its end pushed         *)
(* outward.                                                                *)
(***************************************************************************)
PushedData ==
    IF ps.eos THEN SubSeq(ps.pushed, 1, Len(ps.pushed) - 1) ELSE ps.pushed

C11_Sequence ==
    /\ PushedData \o ps.tbuf = [i \in 1..ps.made |-> <<i>>]
    /\ ps.got \o ps.rbuf = PushedData
    /\ ps.eos <=> (ps.pushed # <<>> /\ ps.pushed[Len(ps.pushed)] = Null)
    /\ ps.eos => (ps.tended /\ ps.tendemitted /\ ps.tbuf = <<>>)

C11_OutputSide == []C11_Sequence /\ (ps.tended ~> ps.eos)

\* The tail produced three chunks and ended; P pushed them and then null.
C11_Witness ==
    /\ ev = Event("end", "P", "tail", TRUE)
    /\ ps.pushed = <<<<1>>, <<2>>, <<3>>, Null>>
    /\ ps.got # <<>>

(***************************************************************************)
(* C12: the input side of the composite.  The head is given the chunks     *)
(* written to P, in order and unchanged; the callback of a write to P is   *)
(* called only when the head has called the callback of its write; the     *)
(* head is ended once, after P has been ended and every chunk written to P *)
(* has been given to the head and completed; and an ended P does end the   *)
(* head.                                                                   *)
(***************************************************************************)
HeadEnded == ps.hin # <<>> /\ ps.hin[Len(ps.hin)] = Null

HeadData == IF HeadEnded THEN SubSeq(ps.hin, 1, Len(ps.hin) - 1) ELSE ps.hin

C12_Forwarded ==
    /\ HeadData \o ps.wq = [i \in 1..ps.nw |-> <<i>>]
    /\ \A i \in 1..Len(HeadData) : HeadData[i] # Null
    /\ ps.ndone = ps.hdone
    /\ ps.ndone + Len(ps.hpend) = Len(HeadData)
    /\ HeadEnded => (ps.pended /\ ps.wq = <<>> /\ ps.ndone = ps.nw)

C12_InputSide == []C12_Forwarded /\ (ps.pended ~> HeadEnded)

\* Three chunks were written to P, the last before the first completed, and
\* the head has been ended after them.
C12_Witness ==
    /\ ps.hin = <<<<1>>, <<2>>, <<3>>, Null>>
    /\ ps.ndone = 3
    /\ ev = Event("write_callback", "P", "head", TRUE)

(***************************************************************************)
(* C13: an error emitted by any stream of the pipeline, the first, the     *)
(* last or one in between, is emitted by P with the same value: P's errors *)
(* are the streams' errors, one for one in order.                          *)
(***************************************************************************)
C13_ErrorsForwarded ==
    /\ Len(ps.perrors) = Len(ps.serrors)
    /\ \A k \in 1..Len(ps.serrors) : ps.perrors[k] = ps.serrors[k][2]

\* A middle stream and then the head have emitted different errors.
C13_Witness ==
    /\ ev = Event("error", "P", "stream", TRUE)
    /\ ps.serrors = <<<<2, "e2">>, <<1, "e1">>>>
    /\ ps.perrors = <<"e2", "e1">>

(***************************************************************************)
(* C14: vsWarn is counted and changes nothing else.  A vsWarn(err, kind)   *)
(* call with an Error and a string kind on an instrumented stage, with or  *)
(* without a 'warn' listener, adds exactly one to the stage's counter      *)
(* `kind`, leaves every other counter and everything else on every stage   *)
(* alone, and does not disturb the calls in progress or the chunks waiting *)
(* to be handled; a call that throws changes nothing at all.               *)
(***************************************************************************)
C14_WarnStep ==
    (ev'.op = "warn") =>
        LET s == ev'.stage
            k == lastwarn'.kind
            before == obj[s].vs_counters
            after == obj'[s].vs_counters
        IN  /\ UNCHANGED <<pipes, eng, calls, lastout, ps, bumps, lastwalk, loop>>
            /\ ~ev'.ok => obj' = obj
            /\ ev'.ok =>
                  /\ DOMAIN after = DOMAIN before \cup {k}
                  /\ \A c \in DOMAIN after :
                        after[c] = CounterOrZero(before, c)
                                      + (IF c = k THEN 1 ELSE 0)
                  /\ [obj' EXCEPT ![s].vs_counters = before] = obj

C15_WarnContext ==
    (lastwarn.n = 1 /\ lastwarn.kind # "") =>
        lastwarn.context =
            IF lastwarn.active = NullPV
            THEN NullPV
            ELSE [isPV |-> TRUE,
                  pv_value |-> lastwarn.active.pv_value,
                  pv_provenance |->
                     Append(lastwarn.active.pv_provenance,
                            [pvp_source |-> lastwarn.stage,
                             pvp_input |-> lastwarn.inputs])]

\* t2, handling its second input, a chunk marshaled by t1, has raised a
\* warning of kind 'ninputs'.
C15_Witness ==
    /\ ev = Event("warn", "t2", "t2", TRUE)
    /\ lastwarn.kind = "ninputs"
    /\ lastwarn.inputs = 2
    /\ Len(lastwarn.active.pv_provenance) = 1
    /\ lastwarn.context.pv_provenance[2] =
          [pvp_source |-> "t2", pvp_input |-> 2]

(***************************************************************************)
(* C16: for every counter name k and every sequence of operations, the     *)
(* value of counter k of an object equals the number of vsCounterBump(k)   *)
(* calls made on the object so far, and a counter that has never been      *)
(* bumped is absent from vs_counters rather than present with value 0.     *)
(***************************************************************************)
C16_CountsCalls ==
    \A s \in Stages : \A k \in CounterNames :
        /\ CounterOrZero(obj[s].vs_counters, k) = bumps[s][k]
        /\ bumps[s][k] = 0 => k \notin DOMAIN obj[s].vs_counters

\* C16, for the names Object.prototype does not have and the objects that
\* hold no counter named "hasOwnProperty": there the counter is the number
\* of calls, and absent before the first call.
C16_OrdinaryNames ==
    \A s \in Stages :
        bumps[s]["hasOwnProperty"] = 0 =>
            /\ CounterOrZero(obj[s].vs_counters, "nretries") = bumps[s]["nretries"]
            /\ bumps[s]["nretries"] = 0 => "nretries" \notin DOMAIN obj[s].vs_counters

\* vsCounterBump("hasOwnProperty") has been called twice on t3, the second
\* call threw, and the counter is 1.
C16_Collision ==
    /\ bumps["t3"]["hasOwnProperty"] = 2
    /\ ev = Event("vsCounterBump", "t3", "t3", FALSE)
    /\ obj["t3"].vs_counters["hasOwnProperty"] = 1

(***************************************************************************)
(* C17: instrumentObject on an object that already carries a name fails    *)
(* and leaves the object's name, counters and context exactly as they      *)
(* were; on an object with no name it sets the name, an empty counter      *)
(* table and an empty (null) context.                                      *)
(***************************************************************************)
C17_InstrumentStep ==
    \A s \in Stages : \A name \in Labels :
        Instrument(s, name) =>
            IF obj[s].vs_name # NoName
            THEN /\ ~ev'.ok
                 /\ obj'[s].vs_name = obj[s].vs_name
                 /\ obj'[s].vs_counters = obj[s].vs_counters
                 /\ obj'[s].vs_context = obj[s].vs_context
            ELSE /\ ev'.ok
                 /\ obj'[s].vs_name = name
                 /\ obj'[s].vs_counters = EmptyCounters
                 /\ obj'[s].vs_context = NullPV

C17_InstrumentOnce == [][C17_InstrumentStep]_vars

\* instrumentObject has just failed on t1, which is in the middle of a
\* _transform call: it has a name, a counter and a context.
C17_Witness ==
    /\ ev = Event("instrumentObject", "t1", "t1", FALSE)
    /\ obj["t1"].vs_name = "t1"
    /\ CounterOrZero(obj["t1"].vs_counters, "ninputs") = 1
    /\ obj["t1"].vs_context # NullPV

(***************************************************************************)
(* C18: vsRecordUnpipe(downstream) on an upstream fails and modifies       *)
(* neither list when downstream is not in the upstream's vs_downstreams or *)
(* the upstream is not in downstream's vs_upstreams; otherwise it removes  *)
(* exactly one occurrence from each list, so that a pair recorded n times  *)
(* is left with n-1 occurrences on each side, and all the other entries    *)
(* keep their relative order.                                              *)
(***************************************************************************)
Others(seq, x) == SelectSeq(seq, LAMBDA y : y # x)

C18_UnpipeStep ==
    ev'.op = "vsRecordUnpipe" =>
        LET u == ev'.stage
            d == ev'.peer
        IN  IF Count(d, obj[u].vs_downstreams) = 0
                  \/ Count(u, obj[d].vs_upstreams) = 0
            THEN /\ ~ev'.ok
                 /\ obj' = obj
            ELSE /\ ev'.ok
                 /\ Len(obj'[u].vs_downstreams) = Len(obj[u].vs_downstreams) - 1
                 /\ Len(obj'[d].vs_upstreams) = Len(obj[d].vs_upstreams) - 1
                 /\ Count(d, obj'[u].vs_downstreams) =
                        Count(d, obj[u].vs_downstreams) - 1
                 /\ Count(u, obj'[d].vs_upstreams) =
                        Count(u, obj[d].vs_upstreams) - 1
                 /\ Others(obj'[u].vs_downstreams, d) =
                        Others(obj[u].vs_downstreams, d)
                 /\ Others(obj'[d].vs_upstreams, u) =
                        Others(obj[d].vs_upstreams, u)
                 /\ \A s \in Stages :
                       /\ s # u => obj'[s].vs_downstreams = obj[s].vs_downstreams
                       /\ s # d => obj'[s].vs_upstreams = obj[s].vs_upstreams

C18_WitnessFailure ==
    /\ ev = Event("vsRecordUnpipe", "t1", "t3", FALSE)
    /\ obj["t1"].vs_downstreams = <<"t2">>

(***************************************************************************)
(* C19: unpipe, also the unpipe Node does by itself at the end of a        *)
(* stream, leaves every vs_upstreams and vs_downstreams list unchanged; an *)
(* entry of a list disappears only through an explicit vsRecordUnpipe      *)
(* call.                                                                   *)
(***************************************************************************)
C19_UnpipeStep ==
    ev'.op = "unpipe" =>
        \A s \in Stages :
            /\ obj'[s].vs_upstreams = obj[s].vs_upstreams
            /\ obj'[s].vs_downstreams = obj[s].vs_downstreams

\* An entry of a list of s disappears in the step.
Loses(s) ==
    \E x \in Stages :
        \/ Count(x, obj'[s].vs_upstreams) < Count(x, obj[s].vs_upstreams)
        \/ Count(x, obj'[s].vs_downstreams) < Count(x, obj[s].vs_downstreams)

FirstPaths(s) ==
    {p \in UNION {[1..n -> Stages] : n \in 1..Cardinality(Stages)} :
        /\ p[1] = s
        /\ \A i \in 1..(Len(p) - 1) :
              /\ obj[p[i]].vs_upstreams # <<>>
              /\ p[i + 1] = obj[p[i]].vs_upstreams[1]
        /\ obj[p[Len(p)]].vs_upstreams = <<>>}

\* The stages linked to a stage of S, in either direction.
Linked(S) ==
    {x \in Stages : \E y \in S :
        \/ Count(x, obj[y].vs_upstreams) > 0
        \/ Count(x, obj[y].vs_downstreams) > 0
        \/ Count(y, obj[x].vs_upstreams) > 0
        \/ Count(y, obj[x].vs_downstreams) > 0}

RECURSIVE ChainOf(_)
ChainOf(S) == IF Linked(S) \subseteq S THEN S ELSE ChainOf(S \cup Linked(S))

\* Every stage linked to s has at most one upstream and one downstream.
SinglyLinked(s) ==
    \A x \in ChainOf({s}) :
        /\ Len(obj[x].vs_upstreams) <= 1
        /\ Len(obj[x].vs_downstreams) <= 1

C20_Head ==
    ev.op = "vsHead" =>
        /\ ev.ok
        /\ \E p \in FirstPaths(ev.stage) : p[Len(p)] = ev.peer
        /\ SinglyLinked(ev.stage) =>
              {x \in ChainOf({ev.stage}) : obj[x].vs_upstreams = <<>>} = {ev.peer}

\* vsHead() on t3 has returned t1: at the end of the chain t1 -> t2 -> t3,
\* or with t1 recorded as an upstream of t3 before t2.
C20_Witness ==
    /\ ev = Event("vsHead", "t3", "t1", TRUE)
    /\ \/ obj["t3"].vs_upstreams = <<"t2">> /\ obj["t2"].vs_upstreams = <<"t1">>
       \/ obj["t3"].vs_upstreams = <<"t1", "t2">>

\* The chain case of C20_Witness.
C20_WitnessChain ==
    /\ ev = Event("vsHead", "t3", "t1", TRUE)
    /\ obj["t3"].vs_upstreams = <<"t2">>
    /\ obj["t2"].vs_upstreams = <<"t1">>
    /\ SinglyLinked("t3")

\* The case of C20_Witness with several upstreams.
C20_WitnessFanIn ==
    /\ ev = Event("vsHead", "t3", "t1", TRUE)
    /\ obj["t3"].vs_upstreams = <<"t1", "t2">>

(***************************************************************************)
(* C22: instrumentTransform called on an object that has been instrumented *)
(* as an object but not as a stage (it has no vs_upstreams and             *)
(* vs_downstreams lists) is rejected, and installs no transform wrapper.   *)
(***************************************************************************)
C22_RequiresLinkage ==
    [][\A s \in Stages :
          (CallInstrumentTransform(s) /\ isInstrumented(obj, s) /\ ~obj[s].links) =>
              /\ ~ev'.ok
              /\ obj' = obj]_vars

\* C22 as the code has it: instrumentTransform requires the object to be
\* instrumented as an object and nothing else; with or without the lists
\* of a stage it installs the wrappers and sets the mode 'unspecified', and
\* it makes no lists.
C22_RequiresObjectOnly ==
    [][\A s \in Stages :
          CallInstrumentTransform(s) =>
              IF isInstrumented(obj, s)
              THEN /\ ev'.ok
                   /\ obj'[s].xform
                   /\ obj'[s].vs_marshalmode = "unspecified"
                   /\ obj'[s].links = obj[s].links
                   /\ obj'[s].vs_upstreams = obj[s].vs_upstreams
                   /\ obj'[s].vs_downstreams = obj[s].vs_downstreams
              ELSE /\ ~ev'.ok
                   /\ obj' = obj]_vars

\* t1, which instrumentStream was never called on, has been made a
\* Transform stage and has handled a chunk.
C22_Witness ==
    /\ obj["t1"].xform
    /\ ~obj["t1"].links
    /\ CounterOrZero(obj["t1"].vs_counters, "noutputs") = 1
    /\ ev = Event("callback", "t1", "t1", TRUE)

(***************************************************************************)
(* C24: vsPush(null) hands null to the real push and changes neither the   *)
(* noutputs counter nor the marshal mode; every vsPush of a value that is  *)
(* not null adds exactly one to noutputs, in marshal and in nomarshal mode *)
(* alike, so that noutputs is always the number of values, other than      *)
(* null, that the stage handed to its real push.                           *)
(***************************************************************************)
Outputs(o, s) == CounterOrZero(o[s].vs_counters, "noutputs")

C24_CountsEmitted ==
    \A s \in XStages : Outputs(obj, s) = eng[s].nout

C24_PushStep ==
    LET s == ev'.stage
    IN  /\ (ev'.op = "flush_callback" /\ ev'.ok) =>
              /\ obj'[s].vs_counters = obj[s].vs_counters
              /\ obj'[s].vs_marshalmode = obj[s].vs_marshalmode
              /\ eng'[s].eos
              /\ eng'[s].nout = eng[s].nout
        /\ (ev'.op = "push" /\ ev'.ok) =>
              /\ Outputs(obj', s) = Outputs(obj, s) + 1
              /\ eng'[s].nout = eng[s].nout + 1
              /\ obj'[s].vs_marshalmode \in {"marshal", "nomarshal"}

C24_Emission == [][C24_PushStep]_vars /\ []C24_CountsEmitted

\* t1 has emitted two values without marshalling them and then the end of
\* the stream.
C24_Witness ==
    /\ ev = Event("flush_callback", "t1", "t1", TRUE)
    /\ obj["t1"].vs_marshalmode = "nomarshal"
    /\ Outputs(obj, "t1") = 2
    /\ eng["t1"].eos

\* t1 has emitted two values as provenance values.
C24_WitnessMarshal ==
    /\ ev = Event("push", "t1", "t1", TRUE)
    /\ obj["t1"].vs_marshalmode = "marshal"
    /\ Outputs(obj, "t1") = 2

(***************************************************************************)
(* C30: vsPush of a value that is not null on a Transform stage whose      *)
(* context is empty, outside any _transform or _flush call, fails in every *)
(* marshal mode; it leaves the noutputs counter and the marshal mode       *)
(* unchanged and hands nothing to the real push.                           *)
(***************************************************************************)
C30_LatePushStep ==
    LET s == ev'.stage
    IN  (ev'.op = "late_push" /\ obj[s].vs_context = NullPV) =>
            /\ ~ev'.ok
            /\ obj' = obj
            /\ eng' = eng
            /\ lastout' = lastout

C30_NoContextNoPush == [][C30_LatePushStep]_vars

\* A late push has just failed on t1, whose mode is 'marshal' and which has
\* emitted a value before.
C30_Witness ==
    /\ ev = Event("late_push", "t1", "t1", FALSE)
    /\ obj["t1"].vs_marshalmode = "marshal"
    /\ obj["t1"].vs_context = NullPV
    /\ Outputs(obj, "t1") = 1

\* A late push has just failed on a stage whose mode is 'nomarshal'.
C30_WitnessNoMarshal ==
    /\ ev = Event("late_push", "t2", "t2", FALSE)
    /\ obj["t2"].vs_marshalmode = "nomarshal"
    /\ Outputs(obj, "t2") = 1

\* A late push has just failed on a stage whose mode is 'unspecified'.
C30_WitnessUnspecified ==
    /\ ev = Event("late_push", "t1", "t1", FALSE)
    /\ obj["t1"].vs_marshalmode = "unspecified"
    /\ CounterOrZero(obj["t1"].vs_counters, "ninputs") = 1

(***************************************************************************)
(* C25: when the real _transform completes with one result value, the      *)
(* value is emitted exactly once: it goes through vsPush under the context *)
(* of the input being handled, so that it is counted and tagged like any   *)
(* other output, and Node's callback is then called with the error         *)
(* argument only, so that Node does not emit the value again.              *)
(***************************************************************************)
C25_CompleteStep ==
    \A s \in XStages :
        Complete(s, TRUE) =>
            /\ ev'.ok
            /\ eng'[s].nout = eng[s].nout + 1
            /\ Outputs(obj', s) = Outputs(obj, s) + 1
            /\ obj'[s].vs_context = NullPV
            /\ lastout'[s].val =
                  IF obj'[s].vs_marshalmode = "marshal"
                  THEN next(obj[s].vs_context, lastout'[s].raw, obj, s)
                  ELSE Raw(lastout'[s].raw)
            /\ \A d \in XStages :
                  <<s, d>> \in pipes =>
                      /\ Len(eng'[d].wbuf) = Len(eng[d].wbuf) + 1
                      /\ eng'[d].wbuf[Len(eng'[d].wbuf)].chunk = lastout'[s].val

C25_ResultEmittedOnce == [][C25_CompleteStep]_vars

\* t1 has just completed its second input with a value, which reached t2
\* tagged with that input.
C25_Witness ==
    /\ ev = Event("callback", "t1", "t1", TRUE)
    /\ <<"t1", "t2">> \in pipes
    /\ lastout["t1"].val.isPV
    /\ lastout["t1"].val.pv_provenance =
          <<[pvp_source |-> "t1", pvp_input |-> 2]>>
    /\ Outputs(obj, "t1") = 1
    /\ eng["t2"].nwritten = 1

(***************************************************************************)
(* C26: when the callback vsTransform gave to the real _transform is       *)
(* called with more than two arguments, the call fails before any result   *)
(* is emitted and before Node's callback is called.                        *)
(***************************************************************************)
C26_ExtraStep ==
    ev'.op = "callback_extra" =>
        /\ ~ev'.ok
        /\ obj' = obj
        /\ eng' = eng
        /\ lastout' = lastout
        /\ calls' = calls

C26_TooManyArguments == [][C26_ExtraStep]_vars

\* The callback of t1's _transform call has just been called with three
\* arguments: the call is still in progress for Node and nothing was
\* emitted.
C26_Witness ==
    /\ ev = Event("callback_extra", "t1", "t1", FALSE)
    /\ <<"t1", "t2">> \in pipes
    /\ eng["t1"].transforming
    /\ obj["t1"].vs_context # NullPV
    /\ Outputs(obj, "t1") = 0
    /\ eng["t2"].nwritten = 0

(***************************************************************************)
(* C27: on every way a _transform call completes (with an error, with one  *)
(* result, with no result) and when a _flush call completes, the stage's   *)
(* context is cleared before Node's callback is called, so that a next     *)
(* _transform or _flush call that Node makes from inside that callback     *)
(* finds the context empty and passes the assertion vs_context === null.   *)
(***************************************************************************)
Completions == {"callback", "callback_error", "flush_callback"}

C27_DoneStep ==
    LET s == ev'.stage
    IN  /\ ev'.op \in Completions =>
              /\ ev'.ok
              /\ obj'[s].vs_context = NullPV
        /\ ev'.op = "callback_sync" =>
              /\ ev'.ok
              /\ obj'[s].vs_context # NullPV
              /\ obj'[s].ctx_id = eng'[s].ncalls
              /\ obj'[s].ctx_id # obj[s].ctx_id
              /\ \E c \in calls'[s] : c.id = obj'[s].ctx_id
        /\ ev'.op \in {"_transform", "_flush"} => ev'.ok

C27_ContextClearedFirst == [][C27_DoneStep]_vars

\* Node has called t1._transform with the second chunk from inside the
\* callback of the first call, which completed with a value.
C27_Witness ==
    /\ ev = Event("callback_sync", "t1", "t1", TRUE)
    /\ eng["t1"].transforming
    /\ obj["t1"].ctx_id = 2
    /\ CounterOrZero(obj["t1"].vs_counters, "ninputs") = 2
    /\ Outputs(obj, "t1") = 1

\* Node has called t1._flush from inside the callback of the last
\* _transform call.
C27_WitnessFlush ==
    /\ ev = Event("callback_sync", "t1", "t1", TRUE)
    /\ eng["t1"].flushed
    /\ obj["t1"].vs_context = ProvenanceValue(Undefined)

\* t1 has taken a chunk after a call that completed with an error.
C27_WitnessError ==
    /\ ev = Event("_transform", "t1", "t1", TRUE)
    /\ obj["t1"].ctx_id = 2
    /\ Outputs(obj, "t1") = 0
    /\ eng["t2"].nwritten = 0
    /\ eng["t1"].nwritten = 2

(***************************************************************************)
(* C21: vsWalk(func) started at any stage of a singly-linked chain calls   *)
(* func first on the starting stage and then on every stage downstream of  *)
(* it exactly once, in the order of the connections, and ends after the    *)
(* stage that has no downstreams; the stages upstream of the starting      *)
(* stage are not visited.                                                  *)
(***************************************************************************)
\* The stages downstream of s, s included.
RECURSIVE Downstream(_)
Downstream(S) ==
    LET more == {x \in Objects : \E y \in S :
                    Count(x, obj[y].vs_downstreams) > 0}
    IN  IF more \subseteq S THEN S ELSE Downstream(S \cup more)

\* s is on a chain of plain stages: every object linked to it has at most
\* one upstream and one downstream, and none is a PipelineStream.
RECURSIVE Component(_)
Component(S) ==
    LET more == {x \in Objects : \E y \in S :
                    \/ Count(x, obj[y].vs_upstreams) > 0
                    \/ Count(x, obj[y].vs_downstreams) > 0
                    \/ Count(y, obj[x].vs_upstreams) > 0
                    \/ Count(y, obj[x].vs_downstreams) > 0}
    IN  IF more \subseteq S THEN S ELSE Component(S \cup more)

PlainChain(s) ==
    \A x \in Component({s}) :
        /\ Len(obj[x].vs_upstreams) <= 1
        /\ Len(obj[x].vs_downstreams) <= 1
        /\ obj[x].ps_streams = <<>>

C21_Walk ==
    (ev.op = "vsWalk" /\ PlainChain(lastwalk.start)) =>
        LET v == lastwalk.visits
            s == lastwalk.start
        IN  /\ ev.ok
            /\ v[1].stage = s
            /\ {v[i].stage : i \in 1..Len(v)} = Downstream({s})
            /\ Len(v) = Cardinality(Downstream({s}))
            /\ \A i \in 1..(Len(v) - 1) :
                  obj[v[i].stage].vs_downstreams = <<v[i + 1].stage>>
            /\ obj[v[Len(v)].stage].vs_downstreams = <<>>
            /\ \A i \in 1..Len(v) : v[i].depth = v[1].depth

\* vsWalk started at t2, in the middle of the chain t1 -> t2 -> t3, has
\* visited t2 and t3.
C21_Witness ==
    /\ ev = Event("vsWalk", "t2", "t2", TRUE)
    /\ PlainChain("t2")
    /\ obj["t2"].vs_upstreams = <<"t1">>
    /\ lastwalk.visits = <<[stage |-> "t2", depth |-> 0],
                           [stage |-> "t3", depth |-> 0]>>

(***************************************************************************)
(* C29: vsWalk(func) that reaches a PipelineStream at depth d calls func   *)
(* on the PipelineStream at depth d, then on each stream of its ps_streams,*)
(* in their order, at depth d + 1, and then goes on with the first         *)
(* downstream of the PipelineStream at depth d.                            *)
(***************************************************************************)
\* The visits of the last walk that reached a PipelineStream.
Reached ==
    {i \in 1..Len(lastwalk.visits) :
        /\ obj[lastwalk.visits[i].stage].ps_streams # <<>>
        /\ lastwalk.visits[i].depth = lastwalk.visits[1].depth}

C29_WalkInside ==
    ev.op = "vsWalk" =>
        \A i \in Reached :
            LET v == lastwalk.visits
                c == obj[v[i].stage]
                n == Len(c.ps_streams)
                d == v[i].depth
            IN  /\ Len(v) >= i + n
                /\ \A k \in 1..n :
                      v[i + k] = [stage |-> c.ps_streams[k], depth |-> d + 1]
                /\ IF c.vs_downstreams # <<>>
                   THEN /\ Len(v) > i + n
                        /\ v[i + n + 1] = [stage |-> c.vs_downstreams[1],
                                            depth |-> d]
                   ELSE Len(v) = i + n

\* The PipelineStream P over t1 and t2 has been piped into t3 and a walk
\* from P at depth 1 has visited P, t1 and t2 inside it, and then t3.
C29_Witness ==
    /\ ev = Event("vsWalk", "P", "P", TRUE)
    /\ Reached = {1}
    /\ lastwalk.visits = <<[stage |-> "P", depth |-> 1],
                           [stage |-> "t1", depth |-> 2],
                           [stage |-> "t2", depth |-> 2],
                           [stage |-> "t3", depth |-> 1]>>

\* A walk from t3 has reached P, the second stage of the pipeline, and
\* ended inside it.
C29_WitnessDownstream ==
    /\ ev = Event("vsWalk", "t3", "t3", TRUE)
    /\ Reached = {2}
    /\ lastwalk.visits = <<[stage |-> "t3", depth |-> 0],
                           [stage |-> "P", depth |-> 0],
                           [stage |-> "t1", depth |-> 1],
                           [stage |-> "t2", depth |-> 1]>>

(***************************************************************************)
(* C23: when a PipelineStream is constructed over streams s1..sn that have *)
(* been instrumented with instrumentStream, and noPipe is unset or false,  *)
(* the construction records each s(i+1) once in the downstreams of s(i)    *)
(* and each s(i) once in the upstreams of s(i+1), so that streams that     *)
(* were not connected before are recorded exactly once; with noPipe true   *)
(* the construction adds no entry to the lists of the streams.             *)
(***************************************************************************)
\* The number of entries a construction over streams adds to the
\* downstreams of s, and to its upstreams.
AddsDown(streams, s) ==
    Cardinality({i \in 1..(Len(streams) - 1) : streams[i] = s})

AddsUp(streams, s) ==
    Cardinality({i \in 2..Len(streams) : streams[i] = s})

C23_BuildStep ==
    LET streams == obj'[ev'.stage].ps_streams
        n == Len(streams)
    IN  (/\ ev'.op \in {"PipelineStream", "PipelineStream_noPipe"}
         /\ obj[ev'.stage].ps_streams = <<>>
         /\ \A i \in 1..n : /\ obj[streams[i]].links
                             /\ obj[streams[i]].nlinkpipe = 1) =>
        /\ ev'.ok
        /\ ev'.op = "PipelineStream" =>
              /\ \A i \in 1..(n - 1) :
                    /\ Count(streams[i + 1], obj'[streams[i]].vs_downstreams)
                         = Count(streams[i + 1],
                                 obj[streams[i]].vs_downstreams) + 1
                    /\ Count(streams[i], obj'[streams[i + 1]].vs_upstreams)
                         = Count(streams[i],
                                 obj[streams[i + 1]].vs_upstreams) + 1
                    /\ obj[streams[i]].vs_downstreams = <<>> =>
                          obj'[streams[i]].vs_downstreams = <<streams[i + 1]>>
                    /\ obj[streams[i + 1]].vs_upstreams = <<>> =>
                          obj'[streams[i + 1]].vs_upstreams = <<streams[i]>>
              /\ \A s \in Stages :
                    /\ Len(obj'[s].vs_downstreams)
                         = Len(obj[s].vs_downstreams) + AddsDown(streams, s)
                    /\ Len(obj'[s].vs_upstreams)
                         = Len(obj[s].vs_upstreams) + AddsUp(streams, s)
        /\ ev'.op = "PipelineStream_noPipe" =>
              \A s \in Stages :
                  /\ obj'[s].vs_downstreams = obj[s].vs_downstreams
                  /\ obj'[s].vs_upstreams = obj[s].vs_upstreams

C23_ConstructionLinks == [][C23_BuildStep]_vars

\* P has been constructed over the wrapped streams t1, t2, t3 and they are
\* recorded as the chain t1 -> t2 -> t3.
C23_Witness ==
    /\ ev = Event("PipelineStream", "P", "t1", TRUE)
    /\ obj["P"].ps_streams = <<"t1", "t2", "t3">>
    /\ \A s \in Stages : obj[s].nlinkpipe = 1
    /\ obj["t1"].vs_upstreams = <<>> /\ obj["t1"].vs_downstreams = <<"t2">>
    /\ obj["t2"].vs_upstreams = <<"t1">>
    /\ obj["t2"].vs_downstreams = <<"t3">>
    /\ obj["t3"].vs_upstreams = <<"t2">> /\ obj["t3"].vs_downstreams = <<>>

\* P has been constructed with noPipe over the wrapped streams t1, t2, t3
\* and none of them has a connection recorded.
C23_WitnessNoPipe ==
    /\ ev = Event("PipelineStream_noPipe", "P", "t1", TRUE)
    /\ obj["P"].ps_streams = <<"t1", "t2", "t3">>
    /\ \A s \in Stages : /\ obj[s].nlinkpipe = 1
                          /\ obj[s].vs_upstreams = <<>>
                          /\ obj[s].vs_downstreams = <<>>

(***************************************************************************)
(* C28: when a PipelineStream P is piped into a stage instrumented with    *)
(* instrumentTransform, or into a PipelineStream whose first stream had a  *)
(* marshal mode when it was constructed, the stream whose mode is          *)
(* negotiated is the last of P's streams: unspecified becomes marshal, any *)
(* other mode stays; a plain stream piped into such a PipelineStream has   *)
(* its own mode negotiated in the same way.  Nothing else changes a mode   *)
(* in a pipe(), and no mode changes when the destination does not          *)
(* negotiate or when its link listener throws on a source that has no      *)
(* vsRecordPipe.                                                           *)
(***************************************************************************)
Modes(o) == [x \in Objects |-> o[x].vs_marshalmode]

\* The destination d negotiates the mode of its sources.
Negotiates(d) == obj[d].nxformpipe > 0 \/ obj[d].npspipe > 0

\* The link listener of d throws on the source u.
LinkThrows(u, d) ==
    obj[d].nlinkpipe > 0 /\ isInstrumented(obj, u) /\ ~obj[u].links

\* The stream whose mode a pipe from u negotiates.
Last(u) ==
    IF obj[u].ps_streams # <<>>
    THEN obj[u].ps_streams[Len(obj[u].ps_streams)]
    ELSE u

C28_PipeStep ==
    ev'.op = "pipe" =>
        LET u == ev'.stage
            d == ev'.peer
        IN  IF Negotiates(d) /\ ~LinkThrows(u, d)
            THEN /\ ev'.ok
                 /\ Modes(obj') =
                      [Modes(obj) EXCEPT ![Last(u)] =
                          IF @ = "unspecified" THEN "marshal" ELSE @]
            ELSE Modes(obj') = Modes(obj)

\* A PipelineStream negotiates exactly when its first stream had a mode
\* when it was constructed.
C28_ConstructStep ==
    (ev'.op \in {"PipelineStream", "PipelineStream_noPipe"} /\ ev'.ok) =>
        (obj'[ev'.stage].npspipe > 0) = obj[ev'.peer].xform

C28_WitnessPinned ==
    /\ ev = Event("pipe", "P", "Q", TRUE)
    /\ obj["Q"].npspipe > 0
    /\ Last("P") = "t2"
    /\ obj["t2"].vs_marshalmode = "nomarshal"

\* P has been piped into the negotiating PipelineStream Q and its last
\* stream t2 is in marshal mode; no other pipe had been made.
C28_WitnessComposite ==
    /\ ev = Event("pipe", "P", "Q", TRUE)
    /\ obj["Q"].npspipe > 0
    /\ obj["P"].ps_streams = <<"t2">>
    /\ pipes = {<<"P", "Q">>}
    /\ obj["t2"].vs_marshalmode = "marshal"

\* The plain transform t1 has been piped into the negotiating
\* PipelineStream Q and is in marshal mode.
C28_WitnessPlain ==
    /\ ev = Event("pipe", "t1", "Q", TRUE)
    /\ obj["Q"].npspipe > 0
    /\ obj["P"] = RawObject
    /\ pipes = {<<"t1", "Q">>}
    /\ obj["t1"].vs_marshalmode = "marshal"

\* Q was constructed before its first stream t3 was instrumented: P has
\* been piped into it and its last stream t2 is still unspecified.
C28_WitnessLate ==
    /\ ev = Event("pipe", "P", "Q", TRUE)
    /\ obj["t3"].xform /\ obj["Q"].npspipe = 0
    /\ pipes = {<<"P", "Q">>}
    /\ obj[Last("P")].vs_marshalmode = "unspecified"

\* t1 has instrumentTransform but not instrumentStream: the pipe into Q
\* has thrown and t1 is still unspecified.
C28_WitnessBare ==
    /\ ev = Event("pipe", "t1", "Q", FALSE)
    /\ obj["Q"].npspipe > 0
    /\ obj["t1"].xform /\ ~obj["t1"].links
    /\ obj["t1"].vs_marshalmode = "unspecified"

(***************************************************************************)
(* C31: when the real _transform completes without error and passes null   *)
(* or undefined for its result, the instrumented stage does what a stage   *)
(* that is not instrumented does: it emits no value, its noutputs counter  *)
(* and its marshal mode stay as they are, and its output is not ended.     *)
(***************************************************************************)
C31_AbsentStep ==
    (ev'.op = "callback_absent" /\ ev'.ok) =>
        LET s == ev'.stage
        IN  /\ eng'[s].nout = eng[s].nout
            /\ lastout'[s] = lastout[s]
            /\ Outputs(obj', s) = Outputs(obj, s)
            /\ obj'[s].vs_marshalmode = obj[s].vs_marshalmode
            /\ eng'[s].eos = eng[s].eos
            /\ \A d \in Stages : eng'[d].ended = eng[d].ended

C31_AbsentLikePlain == [][C31_AbsentStep]_vars

\* t1's real _transform has called callback(null, null): t1's output has
\* ended, and so has the input of t2, although t1's input has not ended.
C31_WitnessNull ==
    /\ ev = Event("callback_absent", "t1", "t1", TRUE)
    /\ ~eng["t1"].ended /\ eng["t1"].eos /\ eng["t2"].ended
    /\ Outputs(obj, "t1") = 0

\* t1's real _transform has called callback(null, undefined) for its first
\* input: t1 has counted an output, has marshaled undefined and has handed
\* it to t2.
C31_WitnessUndefined ==
    /\ ev = Event("callback_absent", "t1", "t1", TRUE)
    /\ eng["t1"].nwritten = 1
    /\ Outputs(obj, "t1") = 1
    /\ obj["t1"].vs_marshalmode = "marshal"
    /\ lastout["t1"].val.isPV /\ lastout["t1"].val.pv_value = Undefined
    /\ eng["t2"].nwritten = 1

\* The same call on t2, which has no instrumented consumer: t2 has counted
\* an output, has committed to nomarshal and has ended its output.
C31_WitnessCommit ==
    /\ ev = Event("callback_absent", "t2", "t2", TRUE)
    /\ Outputs(obj, "t2") = 1
    /\ eng["t2"].nout = 0
    /\ obj["t2"].vs_marshalmode = "nomarshal"
    /\ eng["t2"].eos /\ ~eng["t2"].ended

(***************************************************************************)
(* C32: instrumentStream on an object that has been through                *)
(* instrumentStream already throws, or else keeps the linkage: after it    *)
(* every stage recorded as a neighbour of the object is still recorded     *)
(* with the same multiplicity on both sides, and a pipe into the object    *)
(* made afterwards is recorded exactly once on each side.                  *)
(***************************************************************************)
\* The stages recorded in a list of s.
Neighbours(s) ==
    {x \in Stages : \/ Count(x, obj[s].vs_upstreams) > 0
                    \/ Count(x, obj[s].vs_downstreams) > 0}

C32_AgainStep ==
    (ev'.op = "instrumentStream" /\ obj[ev'.stage].links) =>
        LET s == ev'.stage
        IN  \/ /\ ~ev'.ok
               /\ obj'[s].vs_upstreams = obj[s].vs_upstreams
               /\ obj'[s].vs_downstreams = obj[s].vs_downstreams
            \/ \A x \in Neighbours(s) :
                  /\ Count(x, obj'[s].vs_downstreams)
                       = Count(s, obj'[x].vs_upstreams)
                  /\ Count(x, obj'[s].vs_upstreams)
                       = Count(s, obj'[x].vs_downstreams)

C32_PipeStep ==
    (ev'.op = "pipe" /\ ev'.ok /\ obj[ev'.peer].links) =>
        LET u == ev'.stage
            d == ev'.peer
        IN  /\ Count(d, obj'[u].vs_downstreams)
                 = Count(d, obj[u].vs_downstreams) + 1
            /\ Count(u, obj'[d].vs_upstreams)
                 = Count(u, obj[d].vs_upstreams) + 1

C32_AgainKeepsLinkage == [][C32_AgainStep /\ C32_PipeStep]_vars

\* What holds of the code: a pipe into a stage is recorded once on each
\* side for each instrumentStream call the stage has been through.
C32_PipeRecordedPerCall ==
    [][(ev'.op = "pipe" /\ ev'.ok /\ obj[ev'.peer].links) =>
          LET u == ev'.stage
              d == ev'.peer
          IN  /\ Count(d, obj'[u].vs_downstreams)
                   = Count(d, obj[u].vs_downstreams) + obj[d].nlinkpipe
              /\ Count(u, obj'[d].vs_upstreams)
                   = Count(u, obj[d].vs_upstreams) + obj[d].nlinkpipe]_vars

\* instrumentStream has returned on t2, which had t1 for an upstream: t1
\* still has t2 for a downstream and t2 has no upstream.
C32_WitnessLost ==
    /\ ev = Event("instrumentStream", "t2", "t2", TRUE)
    /\ obj["t2"].nlinkpipe = 2
    /\ Count("t2", obj["t1"].vs_downstreams) = 1
    /\ obj["t2"].vs_upstreams = <<>>

\* t1 has been piped, once, into t2, on which instrumentStream had been
\* called twice before anything was recorded: the pipe is recorded twice on
\* each side.
C32_WitnessTwice ==
    /\ ev = Event("pipe", "t1", "t2", TRUE)
    /\ obj["t2"].nlinkpipe = 2
    /\ obj["t1"].vs_downstreams = <<"t2", "t2">>
    /\ obj["t2"].vs_upstreams = <<"t1", "t1">>

(***************************************************************************)
(* C33: vsHead() and vsWalk() return on every linkage that vsRecordPipe    *)
(* and vsRecordUnpipe calls can produce, also when following the first     *)
(* upstream (the first downstream) of each stage leads back to a stage the *)
(* call has been at, as with a stage recorded as its own downstream.       *)
(***************************************************************************)
C33_Terminates == (loop.op # "none") ~> (loop.op = "none")

\* What holds of the code: a call that never comes to a stage again
\* returns, with the stage that the loops computed as a whole end at.
C33_ReturnsUnlessAgain ==
    /\ (loop.op # "none") ~> (loop.op = "none" \/ loop.again)
    /\ [](ev.op = "vsHead" =>
            LET r == vsHead(obj, ev.stage)
            IN  r.ok /\ r.returns /\ r.stream = ev.peer)
    /\ [](ev.op = "vsWalk" =>
            LET r == vsWalk(obj, ev.stage, 0)
            IN  /\ r.ok /\ r.returns
                /\ r.visits[Len(r.visits)].stage = ev.peer)

\* t1.vsRecordPipe(t1) has made t1 its own downstream, and the loop of
\* t1.vsWalk() has come to t1 again.
C33_WitnessSelf ==
    /\ loop.op = "vsWalk" /\ loop.again
    /\ loop.start = "t1" /\ loop.at = "t1"
    /\ obj["t1"].vs_downstreams = <<"t1">>

\* t1 and t2 are each other's first upstream, and the loop of t1.vsHead()
\* has come back to t1.
C33_WitnessCycle ==
    /\ loop.op = "vsHead" /\ loop.again
    /\ loop.start = "t1" /\ loop.at = "t1"
    /\ obj["t1"].vs_upstreams[1] = "t2"
    /\ obj["t2"].vs_upstreams[1] = "t1"

====
